---- MODULE Spec2Model ----
(***************************************************************************)
(* A model of the CondaRTS simulation core: the entity model, fog of war,  *)
(* building placement, Headquarters production, the AI purchase cycle, the *)
(* Harvester state machine and combat resolution.                          *)
(*                                                                         *)
(* Conventions.                                                            *)
(*  - A pygame Rect holds integers: an entity is stored by the top-left    *)
(*    corner (x, y) of its rect, its size follows from its class, and a    *)
(*    float assigned to a Rect attribute is truncated toward zero.         *)
(*  - Distances are compared through their squares.                        *)
(*  - production_timer is fractional in the code (180 * 0.9^n, steps of    *)
(*    0.5); it is kept here in hundredths of a tick.                       *)
(*  - Game.objects is a Python set on which Sprite.kill() has no effect:   *)
(*    dead entities stay in `objects`, and Game.units / Game.buildings are *)
(*    the views that filter on health > 0.                                 *)
(***************************************************************************)
EXTENDS Integers, Sequences, FiniteSets, TLC

VARIABLES
    objects,      \* Game.objects: sequence of entity records (units and buildings)
    explored,     \* FogOfWar.explored: set of tiles <<tx, ty>> that are True
    visible,      \* FogOfWar.visible:  set of tiles <<tx, ty>> that are True
    obs,          \* observation of the last operation (what it was applied to, what it returned)
    fields,       \* iron_fields: sequence of IronField records
    projectiles,  \* projectiles: sequence of Projectile records (a killed one has alive = FALSE)
    iron,         \* Team.iron of each team
    hq,           \* the Headquarters attributes of each team's Headquarters
    ai,           \* the attributes of the AI that plays NOD
    pc,           \* position in the main loop: "input" between two ticks, else the next phase
    now,          \* number of ticks started
    selected_building  \* Game.selected_building: index of the selected building, or NoObject

vars == <<objects, explored, visible, obs, fields, projectiles, iron, hq, ai, pc, now,
          selected_building>>
fogVars == <<explored, visible>>
simVars == <<fields, projectiles, iron, hq, ai, pc, now, selected_building>>

----------------------------------------------------------------------------
(* Program constants *)

MAP_WIDTH == 1600
MAP_HEIGHT == 800
TILE_SIZE == 32
BUILDING_CONSTRUCTION_RANGE == 160
BASE_PRODUCTION_TIME == 180
ARRIVAL_RADIUS == 5

Teams == {"GDI", "NOD"}
UnitClasses == {"Infantry", "Tank", "Harvester"}
BuildingClasses == {"Headquarters", "Barracks", "WarFactory", "PowerPlant", "Turret"}

NoPoint == <<>>
NoObject == 0

----------------------------------------------------------------------------
(* Class attributes *)

\* Building.SIZE and the Surface sizes of the unit classes: <<width, height>>.
SIZE(cls) ==
    CASE cls = "Headquarters" -> <<80, 80>>
      [] cls = "Turret"       -> <<50, 50>>
      [] cls \in {"Barracks", "WarFactory", "PowerPlant"} -> <<60, 60>>
      [] cls = "Infantry"     -> <<16, 16>>
      [] cls = "Tank"         -> <<30, 20>>
      [] cls = "Harvester"    -> <<50, 30>>

COST(cls) ==
    CASE cls = "Headquarters" -> 2000
      [] cls = "Barracks"     -> 500
      [] cls = "WarFactory"   -> 1000
      [] cls = "PowerPlant"   -> 300
      [] cls = "Turret"       -> 600
      [] cls = "Infantry"     -> 100
      [] cls = "Tank"         -> 500
      [] cls = "Harvester"    -> 800

POWER_USAGE(cls) ==
    CASE cls = "Headquarters" -> 0
      [] cls = "Barracks"     -> 25
      [] cls = "WarFactory"   -> 35
      [] cls = "PowerPlant"   -> 0
      [] cls = "Turret"       -> 25
      [] cls = "Infantry"     -> 5
      [] cls = "Tank"         -> 15
      [] cls = "Harvester"    -> 20

\* health given by the constructors (max_health = health).
InitialHealth(cls, team) ==
    CASE cls = "Headquarters" -> 1200
      [] cls = "Barracks"     -> 600
      [] cls = "WarFactory"   -> 800
      [] cls = "PowerPlant"   -> 500
      [] cls = "Turret"       -> 500
      [] cls = "Infantry"     -> IF team = "GDI" THEN 100 ELSE 60
      [] cls = "Tank"         -> IF team = "GDI" THEN 200 ELSE 120
      [] cls = "Harvester"    -> 300

----------------------------------------------------------------------------
(* Entities *)

\* The record of a freshly constructed entity whose rect has top-left (x, y).
NewObject(cls, team, x, y) ==
    [cls |-> cls, team |-> team, x |-> x, y |-> y,
     health |-> InitialHealth(cls, team), max_health |-> InitialHealth(cls, team),
     target |-> NoPoint, target_object |-> NoObject, formation_target |-> NoPoint,
     cooldown_timer |-> 0,
     \* whether the entity is in Game.objects (a sold building is taken out)
     in_objects |-> TRUE,
     \* Harvester only: cargo, state, index of the target field, harvest countdown
     iron |-> 0, state |-> IF cls = "Harvester" THEN "moving_to_field" ELSE "none",
     target_field |-> 0, harvest_time |-> IF cls = "Harvester" THEN 40 ELSE 0]

\* GameObject.position: the centre of the rect (pygame: x + w // 2, y + h // 2).
Position(o) == <<o.x + SIZE(o.cls)[1] \div 2, o.y + SIZE(o.cls)[2] \div 2>>

IsBuilding(o) == o.cls \in BuildingClasses
IsUnit(o) == o.cls \in UnitClasses

\* Game.buildings / Game.units: indices of the live entities of each sort.
LiveBuildings(objs) ==
    {i \in DOMAIN objs : IsBuilding(objs[i]) /\ objs[i].in_objects /\ objs[i].health > 0}
UnitsDeadOrAlive(objs) == {i \in DOMAIN objs : IsUnit(objs[i])}
LiveUnits(objs) == {i \in DOMAIN objs : IsUnit(objs[i]) /\ objs[i].health > 0}
buildings == LiveBuildings(objects)
units == LiveUnits(objects)
team_buildings(team) == {i \in buildings : objects[i].team = team}
team_units(team) == {i \in units : objects[i].team = team}

Square(n) == n * n
Dist2(p, q) == Square(p[1] - q[1]) + Square(p[2] - q[2])

----------------------------------------------------------------------------
(* Fog of war (src/src/fog_of_war.py) *)

\* len(self.explored) and len(self.explored[0]) for map_size = (MAP_WIDTH, MAP_HEIGHT).
TilesX == MAP_WIDTH \div TILE_SIZE
TilesY == MAP_HEIGHT \div TILE_SIZE

Max(a, b) == IF a >= b THEN a ELSE b
Min(a, b) == IF a <= b THEN a ELSE b

\* FogOfWar.tile: the tile holding `position` (coordinates are never negative here).
tile(position) == <<position[1] \div TILE_SIZE, position[2] \div TILE_SIZE>>

TileCenter(t) == <<t[1] * TILE_SIZE + TILE_SIZE \div 2, t[2] * TILE_SIZE + TILE_SIZE \div 2>>

\* FogOfWar._reveal: the tiles it sets True (in both grids). Only the window of
\* radius // tile_size tiles around the centre's tile is scanned.
reveal(center, radius) ==
    LET t == tile(center)
        radius_tiles == radius \div TILE_SIZE
    IN {<<tx, ty>> \in (Max(0, t[1] - radius_tiles) .. Min(TilesX, t[1] + radius_tiles + 1) - 1)
                        \X (Max(0, t[2] - radius_tiles) .. Min(TilesY, t[2] + radius_tiles + 1) - 1) :
            Dist2(center, TileCenter(<<tx, ty>>)) <= Square(radius)}

UNIT_REVEAL_RADIUS == 150
BUILDING_REVEAL_RADIUS == 200

\* The tiles revealed by one update_visibility(units, buildings, team) call: around
\* every unit and every building of `team` that the caller passes.
Revealed(us, bs, team) ==
    UNION ({reveal(Position(objects[i]), UNIT_REVEAL_RADIUS) : i \in {j \in us : objects[j].team = team}}
           \cup {reveal(Position(objects[i]), BUILDING_REVEAL_RADIUS) : i \in {j \in bs : objects[j].team = team}})

\* The tiles forced visible because a live building (of any team) stands in them.
BuildingTiles(bs) ==
    {tile(Position(objects[i])) : i \in {j \in bs : objects[j].health > 0}}
        \cap ((0 .. TilesX - 1) \X (0 .. TilesY - 1))

\* update_visibility: `visible` is rebuilt from nothing.
VisibleAfterUpdate(us, bs, team) == Revealed(us, bs, team) \cup BuildingTiles(bs)

ExploredClearedOnUpdate(exp, us, bs, team) == Revealed(us, bs, team)
\* update_visibility: `explored` is never reset, _reveal only adds to it.
ExploredAfterUpdate(exp, us, bs, team) == exp \cup Revealed(us, bs, team)

\* is_visible / is_explored
is_visible(position) ==
    LET t == tile(position)
    IN IF 0 <= t[1] /\ t[1] < TilesX /\ 0 <= t[2] /\ t[2] < TilesY THEN t \in visible ELSE FALSE
is_explored(position) ==
    LET t == tile(position)
    IN IF 0 <= t[1] /\ t[1] < TilesX /\ 0 <= t[2] /\ t[2] < TilesY THEN t \in explored ELSE FALSE

\* The state of a Headquarters after its constructor; `obj` is its index in `objects`.
NewHeadquarters(obj) ==
    [obj |-> obj, iron |-> 1500, production_queue |-> <<>>, production_timer |-> 0,
     pending_building_class |-> "None", pending_building_pos |-> NoPoint,
     power_usage |-> 0, power_output |-> 0]

\* The state of the AI after its constructor.
NewAI(enabled) ==
    [enabled |-> enabled, timer |-> 0, state |-> "BUILD_UP", wave_number |-> 0,
     wave_timer |-> 0, surprise_attack_cooldown |-> 0,
     iron_income_rate |-> 0, last_scout_update |-> 0, scout_targets |-> <<>>]

\* The simulation is not running: the component is exercised on its own.
SimIdle ==
    /\ fields = <<>>
    /\ projectiles = <<>>
    /\ iron = [t \in Teams |-> 1500]
    /\ hq = [t \in Teams |-> NewHeadquarters(IF t = "GDI" THEN 1 ELSE 2)]
    /\ ai = NewAI(FALSE)
    /\ pc = "input"
    /\ now = 0
    /\ selected_building = NoObject

(* The fog component on its own: between two visibility updates the rest of the
   tick moves units, kills entities and adds new ones. *)

\* Rect positions (top-left) that an entity of the fog scenario may move or be put to.
FogPlaces == {<<592, 292>>, <<1200, 600>>}
\* What the fog scenario may add to the match: <<class, team>>.
FogNewcomers == {<<"Infantry", "GDI">>, <<"Barracks", "NOD">>}
MaxFogObjects == 3

\* Match set-up as seen by the player's fog: the GDI Headquarters and one GDI
\* Infantry next to it; everything else arrives later.
FogInit ==
    /\ objects = << NewObject("Headquarters", "GDI", 300, 300),
                    NewObject("Infantry", "GDI", 342, 292) >>
    /\ explored = {}
    /\ visible = {}
    /\ obs = [op |-> "init"]
    /\ SimIdle

\* A unit's rect is moved by its movement update.
FogMove(i, p) ==
    /\ i \in units
    /\ objects' = [objects EXCEPT ![i].x = p[1], ![i].y = p[2]]
    /\ obs' = [op |-> "move"]
    /\ UNCHANGED <<fogVars, simVars>>

\* An entity's health is brought to 0 by damage; it leaves the live views.
FogDeath(i) ==
    /\ i \in units \cup buildings
    /\ objects' = [objects EXCEPT ![i].health = 0]
    /\ obs' = [op |-> "death"]
    /\ UNCHANGED <<fogVars, simVars>>

\* A new entity is added to the match (production, placement).
FogCreate(cls, team, p) ==
    /\ Len(objects) < MaxFogObjects
    /\ objects' = Append(objects, NewObject(cls, team, p[1], p[2]))
    /\ obs' = [op |-> "create"]
    /\ UNCHANGED <<fogVars, simVars>>

\* End of the tick: fog_of_war.update_visibility(units, buildings, team = GDI).
UpdateVisibility ==
    /\ explored' = ExploredAfterUpdate(explored, units, buildings, "GDI")
    /\ visible' = VisibleAfterUpdate(units, buildings, "GDI")
    /\ obs' = [op |-> "update_visibility"]
    /\ UNCHANGED <<objects, simVars>>

FogNext ==
    \/ \E i \in DOMAIN objects, p \in FogPlaces : FogMove(i, p)
    \/ \E i \in DOMAIN objects : FogDeath(i)
    \/ \E n \in FogNewcomers, p \in FogPlaces : FogCreate(n[1], n[2], p)
    \/ UpdateVisibility

SpecFog == FogInit /\ [][FogNext]_vars

\* C10: the explored grid is monotonic: no step of the match, and in particular no
\* visibility update, turns an explored tile back to unexplored.
ExploredMonotonic == [][explored \subseteq explored']_vars

\* A state after a visibility update in which some tile explored earlier is no longer
\* visible (the unit that revealed it has moved away or died) and is still explored.
ExploredMonotonicWitness ==
    /\ obs.op = "update_visibility"
    /\ \E t \in explored : t \notin visible

----------------------------------------------------------------------------
(* Rects and building placement (src/src/game.py) *)

\* pg.Rect(position, size)
MakeRect(position, size) == [x |-> position[1], y |-> position[2], w |-> size[1], h |-> size[2]]
RectOf(o) == MakeRect(<<o.x, o.y>>, SIZE(o.cls))

\* pg.Rect.colliderect: the rects share an area; rects that only touch do not collide,
\* nor does a rect of zero width or height.
colliderect(a, b) ==
    /\ a.w > 0 /\ a.h > 0 /\ b.w > 0 /\ b.h > 0
    /\ a.x < b.x + b.w /\ a.y < b.y + b.h
    /\ a.x + a.w > b.x /\ a.y + a.h > b.y

\* pg.Rect.contains: `inner` lies fully inside `outer`.
contains(outer, inner) ==
    /\ outer.x <= inner.x /\ outer.y <= inner.y
    /\ outer.x + outer.w >= inner.x + inner.w
    /\ outer.y + outer.h >= inner.y + inner.h
    /\ outer.x + outer.w > inner.x
    /\ outer.y + outer.h > inner.y

MapRect == MakeRect(<<0, 0>>, <<MAP_WIDTH, MAP_HEIGHT>>)

\* Game._rect_is_within_map
rect_is_within_map(rect) == contains(MapRect, rect)

\* Game._is_near_friendly_building: the distance runs from `position` (the top-left
\* corner of the new footprint) to the centre of a live building of `team`.
is_near_friendly_building(position, team) ==
    \E b \in team_buildings(team) :
        Dist2(position, Position(objects[b])) < Square(BUILDING_CONSTRUCTION_RANGE)

CollidesWithFriendlyBuildingOnly(rect) ==
    \E b \in team_buildings("GDI") : colliderect(rect, RectOf(objects[b]))
\* Game._rect_collides_with_building: any live building, of either team.
rect_collides_with_building(rect) ==
    \E b \in buildings : colliderect(rect, RectOf(objects[b]))

ValidWithoutMapCheck(position, new_building_class, team) ==
    /\ is_near_friendly_building(position, team)
    /\ ~rect_collides_with_building(MakeRect(position, SIZE(new_building_class)))
\* Game.is_valid_building_position
is_valid_building_position(position, new_building_class, team) ==
    LET new_building_footprint == MakeRect(position, SIZE(new_building_class))
    IN /\ rect_is_within_map(new_building_footprint)
       /\ is_near_friendly_building(position, team)
       /\ ~rect_collides_with_building(new_building_footprint)

(* The validation on its own: the match holds both Headquarters and some further
   buildings, any of which may have been destroyed; the placement preview and
   place_building ask whether a footprint may be put at a position. *)

\* Buildings the placement scenario may start with, beside the two Headquarters.
PlaceExtraBarracks == NewObject("Barracks", "GDI", 96, 288)
PlaceExtraTurret == NewObject("Turret", "NOD", 288, 160)
\* Candidate footprint positions.
PlaceXs == {-32, 180, 181, 300, 380, 1300, 1541}
PlaceYs == {-32, 300, 340, 500, 741}
PlaceClasses == {"Barracks", "Headquarters"}

PlaceInit ==
    /\ \E withBarracks, withTurret \in BOOLEAN :
         objects = << NewObject("Headquarters", "GDI", 300, 300),
                      NewObject("Headquarters", "NOD", MAP_WIDTH - 300, MAP_HEIGHT - 300) >>
                   \o (IF withBarracks THEN <<PlaceExtraBarracks>> ELSE <<>>)
                   \o (IF withTurret THEN <<PlaceExtraTurret>> ELSE <<>>)
    /\ explored = {}
    /\ visible = {}
    /\ obs = [op |-> "init"]
    /\ SimIdle

\* A building is destroyed (its health reaches 0) and leaves Game.buildings.
PlaceDeath(i) ==
    /\ i \in buildings
    /\ objects' = [objects EXCEPT ![i].health = 0]
    /\ obs' = [op |-> "death"]
    /\ UNCHANGED <<fogVars, simVars>>

\* game.is_valid_building_position(position, new_building_class, team) is evaluated.
ValidatePosition(position, cls, team) ==
    /\ obs' = [op |-> "validate", position |-> position, cls |-> cls, team |-> team,
               result |-> is_valid_building_position(position, cls, team)]
    /\ UNCHANGED <<objects, fogVars, simVars>>

PlaceNext ==
    \/ \E i \in DOMAIN objects : PlaceDeath(i)
    \/ \E x \in PlaceXs, y \in PlaceYs, cls \in PlaceClasses, team \in Teams :
          ValidatePosition(<<x, y>>, cls, team)

SpecPlace == PlaceInit /\ [][PlaceNext]_vars

\* Geometry stated on its own terms, for the claim: the open interiors of two
\* rects meet, and a rect lies in [0, MAP_WIDTH] x [0, MAP_HEIGHT].
InteriorsMeet(a, b) ==
    /\ Max(a.x, b.x) < Min(a.x + a.w, b.x + b.w)
    /\ Max(a.y, b.y) < Min(a.y + a.h, b.y + b.h)
InsideMap(r) == r.x >= 0 /\ r.y >= 0 /\ r.x + r.w <= MAP_WIDTH /\ r.y + r.h <= MAP_HEIGHT
ObsFootprint == MakeRect(obs.position, SIZE(obs.cls))
ObsOverlapsLiveBuilding ==
    \E i \in DOMAIN objects :
        IsBuilding(objects[i]) /\ objects[i].health > 0 /\ InteriorsMeet(ObsFootprint, RectOf(objects[i]))
ObsInRange ==
    \E i \in DOMAIN objects :
        /\ IsBuilding(objects[i]) /\ objects[i].health > 0 /\ objects[i].team = obs.team
        /\ Dist2(obs.position, Position(objects[i])) < Square(BUILDING_CONSTRUCTION_RANGE)

PlacementAcceptedWitness ==
    /\ obs.op = "validate"
    /\ obs.result
    /\ \E i \in buildings : ObsFootprint.x = objects[i].x + SIZE(objects[i].cls)[1]

----------------------------------------------------------------------------
(* Movement (src/src/game_objects/game_object.py, src/src/game_object.py) *)

\* Twice the speed set by the constructors (speeds are multiples of 0.5).
Speed2(o) ==
    CASE o.cls = "Infantry"  -> IF o.team = "GDI" THEN 7 ELSE 8
      [] o.cls = "Tank"      -> IF o.team = "GDI" THEN 5 ELSE 6
      [] o.cls = "Harvester" -> 5
      [] OTHER               -> 0

\* ATTACK_RANGE of the unit classes (Harvester: its attack_range attribute).
ATTACK_RANGE(cls) ==
    CASE cls = "Infantry"  -> 50
      [] cls = "Tank"      -> 200
      [] cls = "Harvester" -> 50
      [] OTHER             -> 0

\* a * sqrt(d2) <= n, decided on integers.
ScaledLeq(a, n, d2) ==
    IF n >= 0 THEN (IF a <= 0 THEN TRUE ELSE a * a * d2 <= n * n)
              ELSE (IF a >= 0 THEN FALSE ELSE a * a * d2 >= n * n)

\* Projectile.SPEED, the largest speed of anything that moves.
PROJECTILE_SPEED == 6
MaxStep == PROJECTILE_SPEED

\* rect.x += speed * d / dist: the float sum is truncated toward zero when it is
\* stored in the Rect. speed2 is twice the speed, d2 the squared distance (> 0).
StepCoord(x, speed2, d, d2) ==
    LET n == speed2 * d
        floor_q == CHOOSE k \in -MaxStep .. MaxStep :
                       ScaledLeq(2 * k, n, d2) /\ ~ScaledLeq(2 * (k + 1), n, d2)
        ceil_q == CHOOSE k \in -MaxStep .. MaxStep :
                       ScaledLeq(-2 * k, -n, d2) /\ ~ScaledLeq(-2 * (k - 1), -n, d2)
        sum_is_nonnegative ==
            IF x >= MaxStep THEN TRUE
            ELSE IF x < -MaxStep THEN FALSE
            ELSE ScaledLeq(-2 * x, n, d2)
    IN IF sum_is_nonnegative THEN x + floor_q ELSE x + ceil_q

\* pg.Rect.clamp_ip(pg.Rect(0, 0, MAP_WIDTH, MAP_HEIGHT)) for a rect smaller than the map.
ClampToMap(o) ==
    [o EXCEPT !.x = Max(0, Min(o.x, MAP_WIDTH - SIZE(o.cls)[1])),
              !.y = Max(0, Min(o.y, MAP_HEIGHT - SIZE(o.cls)[2]))]

\* One branch of move_toward: a step toward `point` if farther than ARRIVAL_RADIUS,
\* then the clamp (which every branch that may move applies, moved or not).
StepToward(o, point) ==
    LET d2 == Dist2(Position(o), point)
        dx == point[1] - Position(o)[1]
        dy == point[2] - Position(o)[2]
    IN ClampToMap(IF d2 > Square(ARRIVAL_RADIUS)
                  THEN [o EXCEPT !.x = StepCoord(o.x, Speed2(o), dx, d2),
                                 !.y = StepCoord(o.y, Speed2(o), dy, d2)]
                  ELSE o)

\* GameObject.move_toward. `objs` is the entity list the target_object refers into.
move_toward(o, objs) ==
    IF o.target # NoPoint /\ o.target_object # NoObject /\ objs[o.target_object].health > 0
    THEN IF Dist2(Position(o), o.target) > Square(ATTACK_RANGE(o.cls))
         THEN StepToward(o, o.target)
         ELSE [o EXCEPT !.target = NoPoint]
    ELSE IF o.formation_target # NoPoint THEN StepToward(o, o.formation_target)
    ELSE IF o.target # NoPoint THEN StepToward(o, o.target)
    ELSE o

\* if self.cooldown_timer > 0: self.cooldown_timer -= 1
CoolDown(m) == [m EXCEPT !.cooldown_timer = IF @ > 0 THEN @ - 1 ELSE 0]

\* GameObject.update: movement (units only), then the cooldown counts down.
GameObjectUpdate(o, objs) == CoolDown(IF IsUnit(o) THEN move_toward(o, objs) ELSE o)

UNIT_TARGETING_RANGE(cls) == IF cls = "Tank" THEN 250 ELSE 200

\* Infantry.update / Tank.update after the base update: a live target_object is
\* followed while within UNIT_TARGETING_RANGE and dropped otherwise.
FollowTarget(u, objs) ==
    IF u.target_object # NoObject /\ objs[u.target_object].health > 0
    THEN IF Dist2(Position(u), Position(objs[u.target_object]))
                <= Square(UNIT_TARGETING_RANGE(u.cls))
         THEN [u EXCEPT !.target = Position(objs[u.target_object])]
         ELSE [u EXCEPT !.target = NoPoint, !.target_object = NoObject]
    ELSE u

\* Infantry.update / Tank.update
CombatUnitUpdate(o, objs) == FollowTarget(GameObjectUpdate(o, objs), objs)

----------------------------------------------------------------------------
(* Iron fields and the Harvester (src/src/iron_field.py, src/src/harvester.py) *)

FIELD_SIZE == <<40, 40>>
FIELD_MAX_RESOURCES == 5000
FIELD_REGEN_PERIOD == 500
FIELD_REGEN_AMOUNT == 15

\* IronField(x, y, resources): the rect's top-left is (x, y).
NewField(x, y, resources) ==
    [x |-> x, y |-> y, resources |-> resources, regen_timer |-> FIELD_REGEN_PERIOD]

FieldCenter(f) == <<f.x + FIELD_SIZE[1] \div 2, f.y + FIELD_SIZE[2] \div 2>>

\* A regeneration that adds its amount whatever the field holds.
UncappedRegen(f) ==
    IF f.regen_timer > 0
    THEN [f EXCEPT !.regen_timer = f.regen_timer - 1]
    ELSE [f EXCEPT !.resources = f.resources + FIELD_REGEN_AMOUNT,
                   !.regen_timer = FIELD_REGEN_PERIOD]
\* IronField.update
FieldUpdate(f) ==
    IF f.regen_timer > 0
    THEN [f EXCEPT !.regen_timer = f.regen_timer - 1]
    ELSE [f EXCEPT !.resources = Min(FIELD_MAX_RESOURCES, f.resources + FIELD_REGEN_AMOUNT),
                   !.regen_timer = FIELD_REGEN_PERIOD]

HARVESTER_CAPACITY == 100
HARVEST_TIME == 40
HARVESTER_ATTACK_DAMAGE == 10
HARVESTER_ATTACK_COOLDOWN == 30
RICH_FIELD_RESOURCES == 1000
HARVESTER_REACH == 30

\* min(candidates, key = distance from `position`): Python's min keeps the first of
\* equally near candidates, here the one of lowest index.
Nearest(position, candidates, CenterOf(_)) ==
    IF candidates = {} THEN 0
    ELSE CHOOSE c \in candidates :
             \A e \in candidates :
                 \/ Dist2(position, CenterOf(c)) < Dist2(position, CenterOf(e))
                 \/ Dist2(position, CenterOf(c)) = Dist2(position, CenterOf(e)) /\ c <= e

\* Harvester.update, step 2: the self-defence attack on the nearest live enemy Infantry
\* closer than attack_range.
HarvesterDefend(i, w) ==
    LET o == w.objects[i]
        near == {j \in LiveUnits(w.objects) :
                    /\ w.objects[j].team # o.team
                    /\ w.objects[j].cls = "Infantry"
                    /\ Dist2(Position(o), Position(w.objects[j])) < Square(ATTACK_RANGE("Harvester"))}
        closest_target == Nearest(Position(o), near, LAMBDA j : Position(w.objects[j]))
    IN IF o.cooldown_timer = 0 /\ closest_target # 0
       THEN [w EXCEPT !.objects[closest_target].health = @ - HARVESTER_ATTACK_DAMAGE,
                      !.objects[i].cooldown_timer = HARVESTER_ATTACK_COOLDOWN]
       ELSE w

\* Harvester.update, step 3, state "moving_to_field".
HarvesterMovingToField(i, w) ==
    LET o == w.objects[i]
        all_fields == DOMAIN w.fields
        rich_fields == {f \in all_fields : w.fields[f].resources >= RICH_FIELD_RESOURCES}
        chosen == IF o.target_field = 0 \/ w.fields[o.target_field].resources <= 0
                  THEN Nearest(Position(o), IF rich_fields # {} THEN rich_fields ELSE all_fields,
                               LAMBDA f : FieldCenter(w.fields[f]))
                  ELSE o.target_field
    IN IF chosen = 0 THEN [w EXCEPT !.objects[i].target_field = 0]
       ELSE IF Dist2(Position(o), FieldCenter(w.fields[chosen])) < Square(HARVESTER_REACH)
       THEN [w EXCEPT !.objects[i].target_field = chosen,
                      !.objects[i].state = "harvesting",
                      !.objects[i].target = NoPoint,
                      !.objects[i].harvest_time = HARVEST_TIME]
       ELSE [w EXCEPT !.objects[i].target_field = chosen,
                      !.objects[i].target = FieldCenter(w.fields[chosen])]

\* Harvester.update, step 3, state "harvesting".
HarvesterHarvesting(i, w) ==
    LET o == w.objects[i]
        harvested == Min(w.fields[o.target_field].resources, HARVESTER_CAPACITY)
    IN IF o.harvest_time > 0 THEN [w EXCEPT !.objects[i].harvest_time = @ - 1]
       ELSE IF o.target_field = 0 THEN [w EXCEPT !.error = TRUE]
       ELSE [w EXCEPT !.objects[i].iron = @ + harvested,
                      !.fields[o.target_field].resources = @ - harvested,
                      !.objects[i].state = "returning",
                      !.objects[i].target = Position(w.objects[w.hq_obj[o.team]])]

\* self.hq.iron += self.iron
Deposit(i, w) ==
    [w EXCEPT !.hq_iron[w.objects[i].team] = @ + w.objects[i].iron]

ReturningUnloadsEarly(i, w) ==
    IF w.objects[i].target = NoPoint THEN [w EXCEPT !.error = TRUE]
    ELSE [Deposit(i, w) EXCEPT !.objects[i].iron = 0]
\* Harvester.update, step 3, state "returning".
HarvesterReturning(i, w) ==
    LET o == w.objects[i]
    IN IF o.target = NoPoint THEN [w EXCEPT !.error = TRUE]
       ELSE IF Dist2(Position(o), o.target) < Square(HARVESTER_REACH)
       THEN [Deposit(i, w) EXCEPT !.objects[i].iron = 0,
                                  !.objects[i].state = "moving_to_field",
                                  !.objects[i].target = NoPoint]
       ELSE w

\* Harvester.update, step 3: the state machine.
HarvesterAct(i, w) ==
    CASE w.objects[i].state = "moving_to_field" -> HarvesterMovingToField(i, w)
      [] w.objects[i].state = "harvesting"      -> HarvesterHarvesting(i, w)
      [] w.objects[i].state = "returning"       -> HarvesterReturning(i, w)

\* Harvester.update: the base update, the self-defence, the state machine.
HarvesterUpdate(i, w) ==
    HarvesterAct(i, HarvesterDefend(i,
        [w EXCEPT !.objects[i] = GameObjectUpdate(w.objects[i], w.objects)]))

\* update() of the unit with index i.
UnitUpdate(i, w) ==
    IF w.objects[i].cls = "Harvester" THEN HarvesterUpdate(i, w)
    ELSE [w EXCEPT !.objects[i] = CombatUnitUpdate(w.objects[i], w.objects)]

\* all units' update(), one after the other, for the units live when the phase
\* starts; once an update has raised, the loop is left.
RECURSIVE UpdateUnitsFrom(_, _, _)
UpdateUnitsFrom(k, live, w) ==
    IF k > Len(w.objects) \/ w.error THEN w
    ELSE UpdateUnitsFrom(k + 1, live, IF k \in live THEN UnitUpdate(k, w) ELSE w)

\* The world the unit updates work on: the entities, the fields, the iron attribute
\* and the entity index of each Headquarters, and whether an update has raised.
World ==
    [objects |-> objects, fields |-> fields,
     hq_iron |-> [t \in Teams |-> hq[t].iron],
     hq_obj |-> [t \in Teams |-> hq[t].obj],
     error |-> FALSE]

----------------------------------------------------------------------------
(* Production (src/src/game.py, src/src/game_objects/buildings/headquarters.py,
   src/src/player_interface.py) *)

\* production_timer is kept in units of 1 / TimerScale of a tick.
TimerScale == 10000
BASE_POWER == 300
POWER_OUTPUT == 100
MAX_PRODUCTION_QUEUE_LENGTH == 5
SPAWN_OFFSET_X == 20
FORMATION_SPACING == 20
FORMATION_MAX_COLS == 5
FORMATION_MAX_ROWS == 4

\* BASE_PRODUCTION_TIME * (0.9 ** count), scaled; exact up to four supporting
\* buildings, rounded down to 1 / TimerScale beyond.
RECURSIVE ScaledProductionTime(_)
ScaledProductionTime(count) ==
    IF count = 0 THEN BASE_PRODUCTION_TIME * TimerScale
    ELSE (ScaledProductionTime(count - 1) * 9) \div 10

CountOfDeadOrAlive(objs, team, cls) ==
    Cardinality({b \in DOMAIN objs : objs[b].team = team /\ objs[b].cls = cls})
\* The number of live buildings of class `cls` in Game.team_buildings(team).
CountOf(objs, team, cls) ==
    Cardinality({b \in LiveBuildings(objs) : objs[b].team = team /\ objs[b].cls = cls})

\* Game.get_production_time
get_production_time(objs, cls, team) ==
    CASE cls = "Infantry"             -> ScaledProductionTime(CountOf(objs, team, "Barracks"))
      [] cls \in {"Tank", "Harvester"} -> ScaledProductionTime(CountOf(objs, team, "WarFactory"))
      [] OTHER                        -> BASE_PRODUCTION_TIME * TimerScale

\* Headquarters._power_output
power_output(objs, team) == BASE_POWER + POWER_OUTPUT * CountOf(objs, team, "PowerPlant")

RECURSIVE SumPower(_, _)
SumPower(objs, S) ==
    IF S = {} THEN 0
    ELSE LET i == CHOOSE j \in S : TRUE
         IN POWER_USAGE(objs[i].cls) + SumPower(objs, S \ {i})

\* Headquarters._power_usage: every live friendly unit and building except the
\* Headquarters itself.
power_usage(objs, team, self) ==
    SumPower(objs, {i \in (LiveUnits(objs) \cup LiveBuildings(objs)) :
                        objs[i].team = team /\ i # self})

\* Headquarters.has_enough_power
has_enough_power(h) == h.power_output >= h.power_usage

\* geometry.calculate_formation_positions(center, num_units = 1, direction = 0)[0]:
\* slot (row 0, col 0) of the 5 x 4 grid, not rotated.
FirstFormationPosition(center) ==
    <<center[1] - ((FORMATION_MAX_COLS - 1) * FORMATION_SPACING) \div 2,
      center[2] - ((FORMATION_MAX_ROWS - 1) * FORMATION_SPACING) \div 2>>

\* The unit that Headquarters.update adds next to `spawn_building`: constructed,
\* then rect.center and formation_target are set to its formation slot.
SpawnedUnit(cls, team, spawn_building) ==
    LET spawn_pos == <<spawn_building.x + SIZE(spawn_building.cls)[1] + SPAWN_OFFSET_X,
                       Position(spawn_building)[2]>>
        pos == FirstFormationPosition(spawn_pos)
    IN [NewObject(cls, team, pos[1] - SIZE(cls)[1] \div 2, pos[2] - SIZE(cls)[2] \div 2)
           EXCEPT !.formation_target = pos]

ProducerClass(cls) == IF cls = "Infantry" THEN "Barracks" ELSE "WarFactory"

\* production_timer -= 1 if has_enough_power else 0.5
TimerDrop(h) == IF has_enough_power(h) THEN TimerScale ELSE TimerScale \div 2

\* The production time the code arms the timer with when an item becomes the head
\* of the queue: only with enough power, else the timer is left at / set to 0.
ArmedTimer(objs, h, team, queue, else_value) ==
    IF queue # <<>> /\ has_enough_power(h)
    THEN get_production_time(objs, Head(queue), team)
    ELSE else_value

SpawnAtHeadquarters(objs, team, popped, unit_cls) ==
    IF unit_cls \in BuildingClasses
    THEN [hq |-> [popped EXCEPT !.pending_building_class = unit_cls], new_units |-> <<>>]
    ELSE [hq |-> popped, new_units |-> <<SpawnedUnit(unit_cls, team, objs[popped.obj])>>]
\* Headquarters.update, the item at the head of the queue is complete (`popped` is
\* the Headquarters with the item taken off the queue): a building becomes the
\* pending building; a unit is added next to the nearest producing building, and
\* is lost when the team has none; then the timer is armed for the next item.
CompleteProduction(objs, team, popped, unit_cls) ==
    LET producers == {b \in LiveBuildings(objs) :
                         objs[b].team = team /\ objs[b].cls = ProducerClass(unit_cls)}
        spawn_building == Nearest(Position(objs[popped.obj]), producers,
                                  LAMBDA b : Position(objs[b]))
        rearmed == [popped EXCEPT !.production_timer =
                                      ArmedTimer(objs, popped, team, popped.production_queue, 0)]
    IN IF unit_cls \in BuildingClasses
       THEN [hq |-> [rearmed EXCEPT !.pending_building_class = unit_cls,
                                    !.pending_building_pos = NoPoint],
             new_units |-> <<>>]
       ELSE IF producers = {} THEN [hq |-> popped, new_units |-> <<>>]
       ELSE [hq |-> rearmed, new_units |-> <<SpawnedUnit(unit_cls, team, objs[spawn_building])>>]

PopNewest(objs, team, armed) ==
    IF armed.production_timer - TimerDrop(armed) > 0
    THEN [hq |-> [armed EXCEPT !.production_timer = @ - TimerDrop(armed)], new_units |-> <<>>]
    ELSE CompleteProduction(objs, team,
                            [armed EXCEPT !.production_timer = @ - TimerDrop(armed),
                                          !.production_queue = SubSeq(@, 1, Len(@) - 1)],
                            armed.production_queue[Len(armed.production_queue)])
\* Headquarters.update, the countdown: `armed` is the Headquarters after its timer
\* was armed; the timer drops and at or below 0 the head of the queue is complete.
CountDown(objs, team, armed) ==
    IF armed.production_timer - TimerDrop(armed) > 0
    THEN [hq |-> [armed EXCEPT !.production_timer = @ - TimerDrop(armed)], new_units |-> <<>>]
    ELSE CompleteProduction(objs, team,
                            [armed EXCEPT !.production_timer = @ - TimerDrop(armed),
                                          !.production_queue = Tail(@)],
                            Head(armed.production_queue))

\* Headquarters.update with the power figures refreshed (`p`): nothing to do with
\* an empty queue; a timer at 0 is armed for the head of the queue.
RunProduction(objs, team, p) ==
    IF p.production_queue = <<>> THEN [hq |-> p, new_units |-> <<>>]
    ELSE IF p.production_timer = 0
    THEN CountDown(objs, team,
                   [p EXCEPT !.production_timer = ArmedTimer(objs, p, team, p.production_queue, 0)])
    ELSE CountDown(objs, team, p)

\* Headquarters.update for the Headquarters `h` of `team`. Gives the Headquarters
\* attributes after the update and the units it adds to the match.
HeadquartersUpdate(objs, team, h) ==
    RunProduction(objs, team, [h EXCEPT !.power_output = power_output(objs, team),
                                        !.power_usage = power_usage(objs, team, h.obj)])

\* geometry.snap_to_grid
snap_to_grid(position) ==
    <<(position[1] \div TILE_SIZE) * TILE_SIZE, (position[2] \div TILE_SIZE) * TILE_SIZE>>

\* Headquarters.place_building: the position is snapped to the grid; if it is valid
\* the building is added, the pending building is cleared and, with a non-empty queue
\* and enough power, the timer is set anew. Gives the Headquarters attributes after
\* the call and the buildings it adds to the match.
place_building(team, h, position, unit_cls) ==
    LET snapped_pos == snap_to_grid(position)
        new_building == NewObject(unit_cls, team, snapped_pos[1], snapped_pos[2])
    IN IF is_valid_building_position(snapped_pos, unit_cls, team)
       THEN [hq |-> [h EXCEPT !.pending_building_class = "None",
                              !.pending_building_pos = NoPoint,
                              !.production_timer =
                                   ArmedTimer(Append(objects, new_building), h, team,
                                              h.production_queue, @)],
             new_buildings |-> <<new_building>>]
       ELSE [hq |-> h, new_buildings |-> <<>>]

----------------------------------------------------------------------------
(* AI (src/src/ai.py) *)

ACTION_INTERVAL == 50
THREAT_RANGE == 500
SCOUT_INTERVAL == 200
IncomeScale == 100

\* int(ratio * SCALE_FACTOR) for DESIRED_UNIT_RATIO = {4, 6, 3, 3} and SCALE_FACTOR 1.8
DesiredHarvesters == 7
DesiredInfantry == 10
DesiredTanks == 5
DesiredTurrets == 5

UnitCount(objs, team, cls) ==
    Cardinality({u \in LiveUnits(objs) : objs[u].team = team /\ objs[u].cls = cls})

RECURSIVE SumIron(_, _)
SumIron(objs, S) ==
    IF S = {} THEN 0
    ELSE LET i == CHOOSE j \in S : TRUE IN objs[i].iron + SumIron(objs, S \ {i})

\* iron_income_rate = sum(cargo) / max(1, harvesters) * 60 / 40, kept in 1 / IncomeScale
\* (rounded down, which keeps every comparison with 50 exact).
IncomeRate(objs, team) ==
    LET hs == {u \in LiveUnits(objs) : objs[u].team = team /\ objs[u].cls = "Harvester"}
    IN (SumIron(objs, hs) * 60 * IncomeScale) \div (Max(1, Cardinality(hs)) * 40)

\* AI._determine_state (defense_cooldown is never changed from 0).
determine_state(a, team, opposing_team) ==
    LET objs == objects IN
    LET enemy_units == {u \in LiveUnits(objs) : objs[u].team = opposing_team}
        enemy_buildings_count ==
            Cardinality({b \in LiveBuildings(objs) : objs[b].team = opposing_team})
        player_base_size == Cardinality(enemy_units) + enemy_buildings_count
        rate == IncomeRate(objs, team)
        own_hq == objs[hq[team].obj]
    IN [a EXCEPT
          !.iron_income_rate = rate,
          !.state =
             IF iron[team] < 300 \/ rate < 50 * IncomeScale THEN "BROKE"
             ELSE IF own_hq.health * 10 < own_hq.max_health * 6 THEN "ATTACKED"
             ELSE IF \E u \in enemy_units :
                        Dist2(Position(objs[u]), Position(own_hq)) < Square(THREAT_RANGE)
                  THEN "THREATENED"
             ELSE IF a.wave_number >= 2 \/ player_base_size > 8 THEN "AGGRESSIVE"
             ELSE "BUILD_UP"]

QueueCount(queue, cls) == Cardinality({k \in DOMAIN queue : queue[k] = cls})

\* current_units of _buy_objects: Barracks and WarFactory count the queued ones too.
CurrentUnits(objs, h, team) ==
    [harvester   |-> UnitCount(objs, team, "Harvester"),
     infantry    |-> UnitCount(objs, team, "Infantry"),
     tank        |-> UnitCount(objs, team, "Tank"),
     turret      |-> CountOf(objs, team, "Turret"),
     power_plant |-> CountOf(objs, team, "PowerPlant"),
     barracks    |-> CountOf(objs, team, "Barracks") + QueueCount(h.production_queue, "Barracks"),
     war_factory |-> CountOf(objs, team, "WarFactory") + QueueCount(h.production_queue, "WarFactory")]

DesiredPowerPlants(c) == Max(1, (c.harvester + 1) \div 2)
HarvesterQuota(enemy_harvesters) == Min(DesiredHarvesters, enemy_harvesters + 1)

WarFactoryGateFirst(c, a, h, stock, enemy_harvesters) ==
    IF c.war_factory = 0 /\ stock >= COST("WarFactory") THEN "WarFactory"
    ELSE IF c.barracks = 0 /\ stock >= COST("Barracks") THEN "Barracks"
    ELSE "None"
\* _buy_objects, the purchases that end the cycle at once (each is followed by
\* `return`): the class bought, or "None" when no gate fires.
GatePurchase(c, a, h, stock, enemy_harvesters) ==
    IF c.barracks = 0 /\ stock >= COST("Barracks") THEN "Barracks"
    ELSE IF c.war_factory = 0 /\ stock >= COST("WarFactory") THEN "WarFactory"
    ELSE IF /\ has_enough_power(h)
            /\ stock >= COST("PowerPlant")
            /\ c.power_plant < DesiredPowerPlants(c)
         THEN "PowerPlant"
    ELSE IF /\ (c.harvester < HarvesterQuota(enemy_harvesters)
                  \/ a.iron_income_rate < 50 * IncomeScale)
            /\ stock >= COST("Harvester")
            /\ c.war_factory > 0
         THEN "Harvester"
    ELSE "None"

\* _buy_objects, production_options for the AI state (as a set: random.choice picks
\* any member). The first branch tests for the strings "BUILD UP" and "AGGRESSIVE".
production_options(c, a, stock, enemy_harvesters) ==
    LET total_military == c.infantry + c.tank + c.turret
        has_barracks == c.barracks > 0
        has_warfactory == c.war_factory > 0
        infantry_ok == has_barracks /\ stock >= COST("Infantry") /\ c.infantry < DesiredInfantry
        tank_ok == has_warfactory /\ stock >= COST("Tank") /\ c.tank < DesiredTanks
        turret_ok == stock >= COST("Turret") /\ c.turret < DesiredTurrets
        power_ok == c.power_plant < DesiredPowerPlants(c) /\ stock >= COST("PowerPlant")
    IN IF a.state \in {"BUILD UP", "AGGRESSIVE"}
       THEN {cls \in UnitClasses \cup BuildingClasses :
               \/ cls = "Infantry" /\ infantry_ok
               \/ cls = "Tank" /\ tank_ok
               \/ cls = "Turret" /\ turret_ok
               \/ cls = "Harvester" /\ c.harvester < DesiredHarvesters
                      /\ stock >= COST("Harvester") /\ has_warfactory
               \/ cls = "PowerPlant" /\ power_ok
               \/ cls = "Barracks" /\ c.barracks < 2 /\ stock >= COST("Barracks")
                      /\ total_military >= 6
               \/ cls = "WarFactory" /\ c.war_factory < 2 /\ stock >= COST("WarFactory")
                      /\ total_military >= 6
               \/ cls = "Headquarters" /\ stock >= COST("Headquarters") /\ c.harvester >= 2}
       ELSE IF a.state \in {"ATTACKED", "THREATENED"}
       THEN {cls \in UnitClasses \cup BuildingClasses :
               \/ cls = "Turret" /\ turret_ok
               \/ cls = "Tank" /\ tank_ok
               \/ cls = "Infantry" /\ infantry_ok
               \/ cls = "Harvester" /\ c.harvester < HarvesterQuota(enemy_harvesters)
                      /\ stock >= COST("Harvester") /\ has_warfactory
               \/ cls = "PowerPlant" /\ power_ok}
       ELSE IF /\ a.state = "BROKE" /\ has_warfactory /\ stock >= COST("Harvester")
               /\ c.harvester < HarvesterQuota(enemy_harvesters)
       THEN {"Harvester"}
       ELSE {}

\* floor(120 * cos(angle)), floor(120 * sin(angle)) for angle = 0, 20, ..., 340 degrees
\* (as the float sum with a building centre whose x is at least 572 floors).
PLACEMENT_OFFSETS ==
    << <<120, 0>>, <<112, 41>>, <<91, 77>>, <<60, 103>>, <<20, 118>>, <<-21, 118>>,
       <<-60, 103>>, <<-92, 77>>, <<-113, 41>>, <<-120, 0>>, <<-113, -42>>, <<-92, -78>>,
       <<-60, -104>>, <<-21, -119>>, <<20, -119>>, <<60, -104>>, <<91, -78>>, <<112, -42>> >>
FIELD_PLACEMENT_RANGE == 600

\* _find_valid_building_position: the positions it may return. The friendly buildings
\* are walked in the iteration order of a set, so any building that offers a valid
\* angle may be the one that is used; for that building the first valid angle counts.
find_valid_building_position(building_cls, team) ==
    LET home == Position(objects[hq[team].obj])
        closest_field == Nearest(home, DOMAIN fields, LAMBDA f : FieldCenter(fields[f]))
        CandidateAt(b, k) ==
            snap_to_grid(<<Position(objects[b])[1] + PLACEMENT_OFFSETS[k][1],
                           Position(objects[b])[2] + PLACEMENT_OFFSETS[k][2]>>)
        Accepted(b, k) ==
            /\ is_valid_building_position(CandidateAt(b, k), building_cls, team)
            /\ \/ closest_field = 0
               \/ Dist2(CandidateAt(b, k), FieldCenter(fields[closest_field]))
                      < Square(FIELD_PLACEMENT_RANGE)
        offering == {b \in team_buildings(team) : \E k \in DOMAIN PLACEMENT_OFFSETS : Accepted(b, k)}
        FirstAccepted(b) ==
            CHOOSE k \in DOMAIN PLACEMENT_OFFSETS :
                Accepted(b, k) /\ \A j \in 1 .. k - 1 : ~Accepted(b, j)
    IN IF offering = {} THEN {snap_to_grid(home)}
       ELSE {CandidateAt(b, FirstAccepted(b)) : b \in offering}

FreePurchase(h, stock, cls) ==
    [hq |-> [h EXCEPT !.production_queue = Append(@, cls)], iron |-> stock]
\* AI._buy_object
buy_object(h, stock, cls) ==
    [hq |-> [h EXCEPT !.production_queue = Append(@, cls)], iron |-> stock - COST(cls)]

\* AI._buy_objects for the AI of `team`. `choice` is what random.choice returns (a
\* member of production_options, "None" when there are none), `position` what
\* _find_valid_building_position returns. Gives the Headquarters attributes and the
\* iron after the cycle, the class bought ("None" if nothing), the buildings added and
\* whether place_building was called.
buy_objects(a, h, stock, team, opposing_team, choice, position) ==
    LET c == CurrentUnits(objects, h, team)
        enemy_harvesters == UnitCount(objects, opposing_team, "Harvester")
        gate == GatePurchase(c, a, h, stock, enemy_harvesters)
        chosen == IF choice = "None" THEN [hq |-> h, iron |-> stock]
                  ELSE buy_object(h, stock, choice)
        timed == IF chosen.hq.production_queue # <<>> /\ chosen.hq.production_timer = 0
                 THEN [chosen.hq EXCEPT !.production_timer =
                           get_production_time(objects, Head(chosen.hq.production_queue), team)]
                 ELSE chosen.hq
        placing == timed.pending_building_class # "None" /\ timed.pending_building_pos = NoPoint
        placed == place_building(team, [timed EXCEPT !.pending_building_pos = position],
                                 position, timed.pending_building_class)
    IN IF gate # "None"
       THEN [hq |-> buy_object(h, stock, gate).hq, iron |-> buy_object(h, stock, gate).iron,
             bought |-> gate, new_buildings |-> <<>>, attempted |-> FALSE]
       ELSE IF stock <= 0
       THEN [hq |-> h, iron |-> stock, bought |-> "None", new_buildings |-> <<>>,
             attempted |-> FALSE]
       ELSE IF placing
       THEN [hq |-> placed.hq, iron |-> chosen.iron, bought |-> choice,
             new_buildings |-> placed.new_buildings, attempted |-> TRUE]
       ELSE [hq |-> timed, iron |-> chosen.iron, bought |-> choice, new_buildings |-> <<>>,
             attempted |-> FALSE]

\* What random.choice(production_options) may return.
Choices(options) == IF options = {} THEN {"None"} ELSE options

\* The indices of S in increasing order.
RECURSIVE Ordered(_)
Ordered(S) ==
    IF S = {} THEN <<>>
    ELSE LET m == CHOOSE i \in S : \A j \in S : i <= j IN <<m>> \o Ordered(S \ {m})

Take(seq, n) == SubSeq(seq, 1, Min(n, Len(seq)))
Drop(seq, n) == SubSeq(seq, Min(n, Len(seq)) + 1, Len(seq))

MAX_SCOUTS == 3

\* AI._update_scouting: every SCOUT_INTERVAL updates up to three Infantry without a
\* target are sent to the next scout targets (the list is refilled when empty).
\* Gives the AI attributes and the entity list after the call.
update_scouting(a, objs, team, opposing_team) ==
    LET enemy_hqs == {b \in LiveBuildings(objs) :
                         objs[b].team = opposing_team /\ objs[b].cls = "Headquarters"}
        refill == [f \in DOMAIN fields |-> FieldCenter(fields[f])]
                  \o << <<MAP_WIDTH \div 2, MAP_HEIGHT \div 2>> >>
                  \o (IF enemy_hqs = {} THEN <<>>
                      ELSE <<Position(objs[CHOOSE b \in enemy_hqs : \A e \in enemy_hqs : b <= e])>>)
        targets == IF a.scout_targets = <<>> THEN refill ELSE a.scout_targets
        scouts == Take(Ordered({u \in LiveUnits(objs) :
                                   /\ objs[u].team = team /\ objs[u].cls = "Infantry"
                                   /\ objs[u].target = NoPoint}), MAX_SCOUTS)
        sent == Min(Len(scouts), Len(targets))
    IN IF a.last_scout_update <= 0
       THEN [ai |-> [a EXCEPT !.scout_targets = Drop(targets, sent),
                              !.last_scout_update = SCOUT_INTERVAL],
             objects |-> [i \in DOMAIN objs |->
                            IF \E k \in 1 .. sent : scouts[k] = i
                            THEN [objs[i] EXCEPT
                                    !.target = targets[CHOOSE k \in 1 .. sent : scouts[k] = i],
                                    !.target_object = NoObject]
                            ELSE objs[i]]]
       ELSE [ai |-> [a EXCEPT !.last_scout_update = @ - 1], objects |-> objs]

TARGET_PRIORITY_RANGE == 250

\* Twice the priority weight of _determine_priority_target.
Weight2(o) ==
    IF o.cls = "Harvester" THEN 6
    ELSE IF o.cls = "Headquarters" THEN 5
    ELSE IF o.cls = "Turret" THEN 4
    ELSE IF IsUnit(o) /\ o.health * 10 < o.max_health * 3 THEN 3
    ELSE 2

\* AI._determine_priority_target: the live enemy that sorts first by
\* distance / priority (units are listed before buildings, the sort is stable),
\* if it is closer than 250; else none.
determine_priority_target(objs, unit, opposing_team) ==
    LET enemies == {e \in LiveUnits(objs) \cup LiveBuildings(objs) : objs[e].team = opposing_team}
        D2(e) == Dist2(Position(objs[unit]), Position(objs[e]))
        Before(e, f) ==
            \/ D2(e) * Square(Weight2(objs[f])) < D2(f) * Square(Weight2(objs[e]))
            \/ /\ D2(e) * Square(Weight2(objs[f])) = D2(f) * Square(Weight2(objs[e]))
               /\ \/ IsUnit(objs[e]) /\ IsBuilding(objs[f])
                  \/ IsUnit(objs[e]) = IsUnit(objs[f]) /\ e <= f
        first == CHOOSE e \in enemies : \A f \in enemies : Before(e, f)
    IN IF enemies = {} THEN NoObject
       ELSE IF D2(first) < Square(TARGET_PRIORITY_RANGE) THEN first
       ELSE NoObject

\* random.uniform(-20, 20), (80, 120) and (-50, 50) are drawn at their ends: a draw
\* is -1 or 1, scaled by the spread.
OffsetDraws == {-1, 1}
ATTACK_SPREAD == 20
FLANK_DISTANCE == 100
FLANK_SPREAD == 20
DEFEND_SPREAD == 50

Tactics(state, surprise) ==
    IF state = "AGGRESSIVE" \/ surprise THEN {"balanced", "flank", "all_in"}
    ELSE IF state \in {"THREATENED", "ATTACKED"} THEN {"all_in", "defensive"}
    ELSE {"balanced", "flank", "all_in"}

MAX_WAVE_SIZE == 25
\* The smallest wave_interval random.randint(150, 250) draws.
MIN_WAVE_INTERVAL == 150
SURPRISE_ATTACK_COOLDOWN == 300

UncappedWave(wave_number, surprise) == 4 * MAX_WAVE_SIZE
\* wave_size of _coordinate_attack for the wave number already incremented.
wave_size(wave_number, surprise) ==
    IF surprise THEN Min(12 + wave_number, MAX_WAVE_SIZE)
    ELSE Min(8 + wave_number * 2, MAX_WAVE_SIZE)

\* AI._coordinate_attack, the orders: the Tanks and Infantry of the AI without a
\* target are the candidates, the first `size` of them are in the wave (for the
\* balanced tactic int(0.6 * size) Infantry and int(0.4 * size) Tanks). `off` is the
\* pair of offset draws, one pair for the whole wave.
coordinate_attack(objs, team, opposing_team, tactic, off, size) ==
    LET candidates == {u \in LiveUnits(objs) :
                          /\ objs[u].team = team /\ objs[u].cls \in {"Tank", "Infantry"}
                          /\ objs[u].target = NoPoint}
        infantry_first == Take(Ordered({u \in candidates : objs[u].cls = "Infantry"}),
                               (size * 6) \div 10)
                          \o Take(Ordered({u \in candidates : objs[u].cls = "Tank"}),
                                  (size * 4) \div 10)
        attack_units == IF tactic = "balanced" THEN infantry_first
                        ELSE Take(Ordered(candidates), size)
        combat_units == {attack_units[k] : k \in DOMAIN attack_units}
        Rank(u) == CHOOSE k \in DOMAIN attack_units : attack_units[k] = u
        target == determine_priority_target(objs, attack_units[1], opposing_team)
        enemy_hqs == {b \in LiveBuildings(objs) :
                         objs[b].team = opposing_team /\ objs[b].cls = "Headquarters"}
        gdi_hq == CHOOSE b \in enemy_hqs : \A e \in enemy_hqs : b <= e
        group_size == Len(attack_units) \div 2
        At(p, dx, dy) == <<p[1] + dx, p[2] + dy>>
    IN IF combat_units = {} THEN objs
       ELSE IF tactic \in {"balanced", "all_in"}
       THEN IF target = NoObject THEN objs
            ELSE [i \in DOMAIN objs |->
                     IF i \in combat_units
                     THEN [objs[i] EXCEPT !.target_object = target,
                                          !.target = At(Position(objs[target]),
                                                        off[1] * ATTACK_SPREAD,
                                                        off[2] * ATTACK_SPREAD)]
                     ELSE objs[i]]
       ELSE IF tactic = "flank"
       THEN IF enemy_hqs = {} THEN objs
            ELSE [i \in DOMAIN objs |->
                     IF i \in combat_units
                     THEN [objs[i] EXCEPT
                             !.target_object = gdi_hq,
                             !.target = IF Rank(i) - 1 < group_size
                                        THEN At(Position(objs[gdi_hq]),
                                                FLANK_DISTANCE + off[1] * FLANK_SPREAD,
                                                FLANK_DISTANCE + off[2] * FLANK_SPREAD)
                                        ELSE At(Position(objs[gdi_hq]),
                                                -(FLANK_DISTANCE + off[1] * FLANK_SPREAD),
                                                -(FLANK_DISTANCE + off[2] * FLANK_SPREAD))]
                     ELSE objs[i]]
       ELSE [i \in DOMAIN objs |->
                IF i \in combat_units
                THEN [objs[i] EXCEPT !.target_object = NoObject,
                                     !.target = At(Position(objs[hq[team].obj]),
                                                   off[1] * DEFEND_SPREAD, off[2] * DEFEND_SPREAD)]
                ELSE objs[i]]

----------------------------------------------------------------------------
(* Combat (src/src/game.py, src/src/projectile.py, src/src/turret.py) *)

PROJECTILE_SIZE == <<10, 5>>
PROJECTILE_ARRIVAL == 3
INFANTRY_ATTACK_DAMAGE == 8
TURRET_ATTACK_RANGE == 180
TURRET_ATTACK_DAMAGE == 15
TURRET_ATTACK_COOLDOWN == 25

GlancingDamage(o) == IF o.cls = "Infantry" THEN 4 ELSE 20
\* attack_damage of the combat units.
attack_damage(o) ==
    CASE o.cls = "Infantry" -> INFANTRY_ATTACK_DAMAGE
      [] o.cls = "Tank"     -> IF o.team = "GDI" THEN 20 ELSE 15
      [] OTHER              -> 0

ATTACK_COOLDOWN_PERIOD(cls) == IF cls = "Tank" THEN 50 ELSE 25

\* Projectile(position, target, damage, team): a 10 x 5 rect centred on `position`.
NewProjectile(position, target_unit, damage, team) ==
    [x |-> position[1] - PROJECTILE_SIZE[1] \div 2, y |-> position[2] - PROJECTILE_SIZE[2] \div 2,
     target_unit |-> target_unit, damage |-> damage, team |-> team]

ProjectileRect(p) == MakeRect(<<p.x, p.y>>, PROJECTILE_SIZE)
ProjectileCenter(p) == <<p.x + PROJECTILE_SIZE[1] \div 2, p.y + PROJECTILE_SIZE[2] \div 2>>

\* Projectile.update with a live target farther than 3: one step of SPEED toward it.
ProjectileStep(p, objs) ==
    LET c == ProjectileCenter(p)
        t == Position(objs[p.target_unit])
        d2 == Dist2(c, t)
    IN [p EXCEPT !.x = StepCoord(p.x, 2 * PROJECTILE_SPEED, t[1] - c[1], d2),
                 !.y = StepCoord(p.y, 2 * PROJECTILE_SPEED, t[2] - c[2], d2)]

ProjectileKeepsFlying(p, objs) ==
    objs[p.target_unit].health > 0 =>
        Dist2(ProjectileCenter(p), Position(objs[p.target_unit])) > Square(PROJECTILE_ARRIVAL)
\* Projectile.update: whether the projectile stays in the group. It kills itself when
\* its target is dead, and when it is within 3 of its live target.
ProjectileSurvivesUpdate(p, objs) ==
    /\ objs[p.target_unit].health > 0
    /\ Dist2(ProjectileCenter(p), Position(objs[p.target_unit])) > Square(PROJECTILE_ARRIVAL)

\* projectiles.update(): the projectiles left in the group, each moved one step.
UpdateProjectiles(ps, objs) ==
    LET kept == SelectSeq(ps, LAMBDA p : ProjectileSurvivesUpdate(p, objs))
    IN [k \in DOMAIN kept |->
          IF objs[kept[k].target_unit].health > 0 THEN ProjectileStep(kept[k], objs) ELSE kept[k]]

\* The first entity of `candidates` in iteration order (units before buildings, each
\* by index), 0 if there is none.
FirstOf(objs, candidates) ==
    IF candidates = {} THEN 0
    ELSE CHOOSE e \in candidates :
             \A f \in candidates :
                 \/ IsUnit(objs[e]) /\ IsBuilding(objs[f])
                 \/ IsUnit(objs[e]) = IsUnit(objs[f]) /\ e <= f

\* Game.handle_projectiles for the projectile at index k of w.projectiles: the first
\* live enemy whose rect collides with the projectile's takes the damage and the
\* projectile is killed (marked by hit # 0).
ProjectileImpact(k, w) ==
    LET p == w.projectiles[k]
        colliding == {e \in LiveUnits(w.objects) \cup LiveBuildings(w.objects) :
                         /\ w.objects[e].team # p.team
                         /\ colliderect(ProjectileRect(p), RectOf(w.objects[e]))}
        e == FirstOf(w.objects, colliding)
    IN IF e = 0 THEN w
       ELSE [w EXCEPT !.objects[e].health = @ - p.damage,
                      !.hits = Append(@, [projectile |-> k, victim |-> e,
                                          victim_health |-> w.objects[e].health])]

RECURSIVE ImpactsFrom(_, _)
ImpactsFrom(k, w) ==
    IF k > Len(w.projectiles) THEN w ELSE ImpactsFrom(k + 1, ProjectileImpact(k, w))

\* An impact resolution that leaves the projectiles that hit in the group.
LingeringProjectiles(objs, ps) ==
    LET w == ImpactsFrom(1, [objects |-> objs, projectiles |-> ps, hits |-> <<>>])
    IN [objects |-> w.objects, projectiles |-> ps, hits |-> w.hits]
\* Game.handle_projectiles: the entities and the projectile group after it, and the
\* hits it resolved.
handle_projectiles(objs, ps) ==
    LET w == ImpactsFrom(1, [objects |-> objs, projectiles |-> ps, hits |-> <<>>])
        hit == {w.hits[n].projectile : n \in DOMAIN w.hits}
        Remaining(k) == Cardinality({j \in 1 .. k : j \notin hit})
        left == {k \in DOMAIN ps : k \notin hit}
    IN [objects |-> w.objects,
        projectiles |-> [n \in 1 .. Cardinality(left) |->
                            ps[CHOOSE k \in left : Remaining(k) = n]],
        hits |-> w.hits]

\* Game.handle_attacks for the unit with index i: a Tank or Infantry whose cooldown is
\* 0 attacks its target_object if that is alive and within ATTACK_RANGE, else the
\* nearest live enemy within ATTACK_RANGE. A Tank fires a projectile, an Infantry
\* damages at once; a target brought to 0 or below is killed and forgotten.
UnitAttack(i, w, opposing_team) ==
    LET objs == w.objects
        unit == objs[i]
        InRange(e) == Dist2(Position(unit), Position(objs[e])) <= Square(ATTACK_RANGE(unit.cls))
        ordered == unit.target_object # NoObject /\ objs[unit.target_object].health > 0
                       /\ InRange(unit.target_object)
        enemies == {e \in LiveUnits(objs) \cup LiveBuildings(objs) :
                       objs[e].team = opposing_team /\ InRange(e)}
        nearest == {e \in enemies :
                       \A f \in enemies : Dist2(Position(unit), Position(objs[e]))
                                              <= Dist2(Position(unit), Position(objs[f]))}
        closest_target == IF ordered THEN unit.target_object ELSE FirstOf(objs, nearest)
        aimed == [unit EXCEPT !.target_object = closest_target,
                              !.target = Position(objs[closest_target]),
                              !.cooldown_timer = ATTACK_COOLDOWN_PERIOD(unit.cls)]
        health_after == objs[closest_target].health - attack_damage(unit)
    IN IF ~(unit.cls \in {"Tank", "Infantry"} /\ unit.cooldown_timer = 0) \/ closest_target = 0
       THEN w
       ELSE IF unit.cls = "Tank"
       THEN [w EXCEPT !.objects[i] = aimed,
                      !.projectiles = Append(@, NewProjectile(Position(unit), closest_target,
                                                              attack_damage(unit), unit.team))]
       ELSE [w EXCEPT !.objects[i] = IF health_after <= 0
                                     THEN [aimed EXCEPT !.target = NoPoint,
                                                        !.target_object = NoObject]
                                     ELSE aimed,
                      !.objects[closest_target].health = health_after,
                      !.melee = Append(@, [attacker |-> i, victim |-> closest_target,
                                           victim_health |-> objs[closest_target].health])]

RECURSIVE AttacksFrom(_, _, _, _)
AttacksFrom(k, attackers, w, opposing_team) ==
    IF k > Len(w.objects) THEN w
    ELSE AttacksFrom(k + 1, attackers,
                     IF k \in attackers THEN UnitAttack(k, w, opposing_team) ELSE w,
                     opposing_team)

\* Game.handle_attacks(team, opposing_team): the units of `team` live at the call.
handle_attacks(w, team, opposing_team) ==
    AttacksFrom(1, {u \in LiveUnits(w.objects) : w.objects[u].team = team}, w, opposing_team)

\* Rect coordinate x after `x += f` for a float f with 0 < |f| < 1 of the given sign
\* (0: f = 0): the sum is truncated toward zero.
NudgeCoord(x, sign) ==
    IF x >= 1 /\ sign < 0 THEN x - 1
    ELSE IF x <= -1 /\ sign > 0 THEN x + 1
    ELSE x

\* Game.handle_collisions for one ordered pair: if the rects collide and the centres
\* differ, unit.rect.x += push * d.x / dist and other.rect.y -= push * d.y / dist,
\* with push 0.3 or 0.5 and d the displacement from unit to other.
CollidePair(objs, unit, other) ==
    LET dx == Position(objs[other])[1] - Position(objs[unit])[1]
        dy == Position(objs[other])[2] - Position(objs[unit])[2]
        Sign(n) == IF n > 0 THEN 1 ELSE IF n < 0 THEN -1 ELSE 0
    IN IF unit # other /\ colliderect(RectOf(objs[unit]), RectOf(objs[other]))
          /\ (dx # 0 \/ dy # 0)
       THEN [[objs EXCEPT ![unit].x = NudgeCoord(@, Sign(dx))]
                   EXCEPT ![other].y = NudgeCoord(@, -Sign(dy))]
       ELSE objs

\* The inner loop of handle_collisions: us[a] against every unit from us[k] on
\* (no pair adds or removes an entity).
RECURSIVE CollideWith(_, _, _, _)
CollideWith(us, a, k, objs) ==
    IF k > Len(us) \/ Len(objs) = 0 THEN objs
    ELSE CollideWith(us, a, k + 1, CollidePair(objs, us[a], us[k]))

\* The outer loop of handle_collisions, from us[a] on.
RECURSIVE CollisionsFrom(_, _, _)
CollisionsFrom(us, a, objs) ==
    IF a > Len(us) THEN objs
    ELSE CollisionsFrom(us, a + 1, CollideWith(us, a, 1, objs))

\* Game.handle_collisions: every ordered pair of live units, in index order.
handle_collisions(objs) == CollisionsFrom(Ordered(LiveUnits(objs)), 1, objs)

\* Turret.update: the cooldown counts down in GameObject.update and again in
\* Turret.update; at 0 the turret fires at the nearest live enemy unit closer than
\* attack_range.
TurretFire(i, w, cooled) ==
    LET near == {u \in LiveUnits(w.objects) :
                    /\ w.objects[u].team # cooled.team
                    /\ Dist2(Position(cooled), Position(w.objects[u])) < Square(TURRET_ATTACK_RANGE)}
        closest_target == Nearest(Position(cooled), near, LAMBDA u : Position(w.objects[u]))
    IN IF cooled.cooldown_timer = 0 /\ closest_target # 0
       THEN [w EXCEPT !.objects[i] = [cooled EXCEPT !.cooldown_timer = TURRET_ATTACK_COOLDOWN],
                      !.projectiles = Append(@, NewProjectile(Position(cooled), closest_target,
                                                              TURRET_ATTACK_DAMAGE, cooled.team))]
       ELSE [w EXCEPT !.objects[i] = cooled]

\* Turret.update
TurretUpdate(i, w) == TurretFire(i, w, CoolDown(GameObjectUpdate(w.objects[i], w.objects)))

RECURSIVE TurretsFrom(_, _, _)
TurretsFrom(k, turrets, w) ==
    IF k > Len(w.objects) THEN w
    ELSE TurretsFrom(k + 1, turrets, IF k \in turrets THEN TurretUpdate(k, w) ELSE w)

----------------------------------------------------------------------------
(* The tick (main loop of src/CondaRTS.py): units, iron fields, buildings,
   projectiles, collisions, attacks of both teams, projectile impacts, AI. *)

\* What is watched of the run: the last phase taken and what it did; how many
\* Headquarters updates the head of each queue has seen and whether power was short
\* in all of them; what each Headquarters completed in the last buildings phase.
ObsStart ==
    [op |-> "init",
     head_updates |-> [t \in Teams |-> 0],
     head_unpowered |-> [t \in Teams |-> TRUE],
     completed |-> [t \in Teams |-> "None"],
     completed_after |-> [t \in Teams |-> 0],
     completed_unpowered |-> [t \in Teams |-> FALSE],
     cycle |-> [ran |-> FALSE, barracks |-> 0, iron |-> 0, bought |-> "None",
               attempted |-> FALSE],
     melee |-> <<>>, hits |-> <<>>, removed |-> 0, sold |-> NoObject,
     last_attack |-> <<>>, wave |-> "none"]

\* The watch record at the start of a phase: what the previous phase did is dropped.
ObsCarry(op) ==
    [obs EXCEPT !.op = op,
                !.completed = [t \in Teams |-> "None"],
                !.completed_after = [t \in Teams |-> 0],
                !.completed_unpowered = [t \in Teams |-> FALSE],
                !.cycle = [ran |-> FALSE, barracks |-> 0, iron |-> 0, bought |-> "None",
                           attempted |-> FALSE],
                !.melee = <<>>, !.hits = <<>>, !.removed = 0, !.sold = NoObject,
                !.wave = "none"]

\* The watch record's ticks of the last attack of every entity that has attacked,
\* after a phase that took the entities from `objects` to `after`: an attack is
\* the one thing that raises a cooldown_timer.
LastAttacks(after) ==
    LET raised == {i \in DOMAIN objects : after[i].cooldown_timer > objects[i].cooldown_timer}
    IN [i \in (DOMAIN obs.last_attack) \cup raised |->
           IF i \in raised THEN now ELSE obs.last_attack[i]]

\* A tick starts (at most `max` ticks are taken).
BeginTick(max) ==
    /\ pc = "input"
    /\ now < max
    /\ pc' = "units"
    /\ now' = now + 1
    /\ obs' = ObsCarry("tick")
    /\ UNCHANGED <<objects, fogVars, fields, projectiles, iron, hq, ai, selected_building>>

\* all_units.update()
UnitsPhase ==
    /\ pc = "units"
    /\ LET w == UpdateUnitsFrom(1, LiveUnits(objects), World)
       IN /\ objects' = w.objects
          /\ fields' = w.fields
          /\ hq' = [t \in Teams |-> [hq[t] EXCEPT !.iron = w.hq_iron[t]]]
          /\ pc' = IF w.error THEN "raised" ELSE "fields"
          /\ obs' = [ObsCarry("units") EXCEPT !.last_attack = LastAttacks(w.objects)]
    /\ UNCHANGED <<fogVars, projectiles, iron, ai, now, selected_building>>

\* iron_fields.update()
FieldsPhase ==
    /\ pc = "fields"
    /\ fields' = [f \in DOMAIN fields |-> FieldUpdate(fields[f])]
    /\ pc' = "buildings"
    /\ obs' = ObsCarry("fields")
    /\ UNCHANGED <<objects, fogVars, projectiles, iron, hq, ai, now, selected_building>>

\* The update of the Headquarters of `team`, if it is alive.
LiveHeadquartersUpdate(objs, team) ==
    IF objs[hq[team].obj].health > 0
    THEN HeadquartersUpdate(objs, team, hq[team])
    ELSE [hq |-> hq[team], new_units |-> <<>>]

\* What the watch record keeps of a buildings phase that took the Headquarters
\* from `hq` to `after`.
ObsAfterBuildings(after) ==
    LET Busy(t) == hq[t].production_queue # <<>> /\ objects[hq[t].obj].health > 0
        Popped(t) == Busy(t) /\ Len(after[t].production_queue) < Len(hq[t].production_queue)
        Short(t) == ~has_enough_power(after[t])
    IN [ObsCarry("buildings") EXCEPT
           !.head_updates = [t \in Teams |->
                IF Busy(t) /\ ~Popped(t) THEN obs.head_updates[t] + 1 ELSE 0],
           !.head_unpowered = [t \in Teams |->
                IF Busy(t) /\ ~Popped(t) THEN obs.head_unpowered[t] /\ Short(t)
                ELSE TRUE],
           !.completed = [t \in Teams |->
                IF Popped(t) THEN Head(hq[t].production_queue) ELSE "None"],
           !.completed_after = [t \in Teams |->
                IF Popped(t) THEN obs.head_updates[t] + 1 ELSE 0],
           !.completed_unpowered = [t \in Teams |->
                Popped(t) /\ obs.head_unpowered[t] /\ Short(t)]]

\* The match after the Turrets' updates (`w`) and the two Headquarters' updates.
AfterBuildings(w, gdi, nod) ==
    /\ objects' = w.objects \o gdi.new_units \o nod.new_units
    /\ projectiles' = w.projectiles
    /\ hq' = [t \in Teams |-> IF t = "GDI" THEN gdi.hq ELSE nod.hq]
    /\ obs' = [ObsAfterBuildings([t \in Teams |-> IF t = "GDI" THEN gdi.hq ELSE nod.hq])
                 EXCEPT !.last_attack = LastAttacks(w.objects)]

\* The two Headquarters' updates on the objects the Turrets' updates left.
HeadquartersPhase(w) ==
    AfterBuildings(w, LiveHeadquartersUpdate(w.objects, "GDI"),
                      LiveHeadquartersUpdate(w.objects, "NOD"))

\* buildings.update(): the Turrets, then the two Headquarters.
BuildingsPhase ==
    /\ pc = "buildings"
    /\ HeadquartersPhase(TurretsFrom(1, {b \in buildings : objects[b].cls = "Turret"},
                                     [objects |-> objects, projectiles |-> projectiles]))
    /\ pc' = "projectiles"
    /\ UNCHANGED <<fogVars, fields, iron, ai, now, selected_building>>

\* projectiles.update()
ProjectilesPhase ==
    /\ pc = "projectiles"
    /\ projectiles' = UpdateProjectiles(projectiles, objects)
    /\ obs' = [ObsCarry("projectiles") EXCEPT
                 !.removed = Cardinality({k \in DOMAIN projectiles :
                                objects[projectiles[k].target_unit].health <= 0})]
    /\ pc' = "collisions"
    /\ UNCHANGED <<objects, fogVars, fields, iron, hq, ai, now, selected_building>>

\* game.handle_collisions()
CollisionsPhase ==
    /\ pc = "collisions"
    /\ objects' = handle_collisions(objects)
    /\ obs' = ObsCarry("collisions")
    /\ pc' = "attacks"
    /\ UNCHANGED <<fogVars, fields, projectiles, iron, hq, ai, now, selected_building>>

\* game.handle_attacks for the player's team, then for the AI's team.
AttacksPhase ==
    /\ pc = "attacks"
    /\ LET w0 == [objects |-> objects, projectiles |-> projectiles, melee |-> <<>>]
           w == handle_attacks(handle_attacks(w0, "GDI", "NOD"), "NOD", "GDI")
       IN /\ objects' = w.objects
          /\ projectiles' = w.projectiles
          /\ obs' = [ObsCarry("attacks") EXCEPT !.melee = w.melee,
                                                !.last_attack = LastAttacks(w.objects)]
    /\ pc' = "impacts"
    /\ UNCHANGED <<fogVars, fields, iron, hq, ai, now, selected_building>>

\* game.handle_projectiles(projectiles)
ImpactsPhase ==
    /\ pc = "impacts"
    /\ LET r == handle_projectiles(objects, projectiles)
       IN /\ objects' = r.objects
          /\ projectiles' = r.projectiles
          /\ obs' = [ObsCarry("impacts") EXCEPT
                       !.hits = [n \in DOMAIN r.hits |->
                                    [projectile |-> projectiles[r.hits[n].projectile],
                                     victim |-> r.hits[n].victim,
                                     victim_health |-> r.hits[n].victim_health]]]
    /\ pc' = "ai"
    /\ UNCHANGED <<fogVars, fields, iron, hq, ai, now, selected_building>>

\* Largest number of attack waves the AI launches.
MaxWaves == 1

\* ai.update(): state, scouting, every ACTION_INTERVAL updates a purchase cycle, and
\* possibly an attack wave: a surprise attack when its cooldown is over and the
\* player has fewer than five Tanks, Infantry and Turrets, a regular wave when
\* wave_timer has reached wave_interval. random.random() < 0.1 and the draw of
\* wave_interval are free choices, offered in the updates that run a purchase cycle.
AIPhase ==
    /\ pc = "ai"
    /\ pc' = "input"
    /\ IF ~ai.enabled
       THEN /\ obs' = ObsCarry("ai")
            /\ UNCHANGED <<objects, iron, hq, ai>>
       ELSE LET a1 == determine_state([ai EXCEPT !.timer = @ + 1, !.wave_timer = @ + 1,
                                                 !.surprise_attack_cooldown = Max(0, @ - 1)],
                                      "NOD", "GDI")
                scouted == update_scouting(a1, objects, "NOD", "GDI")
                runs == a1.timer >= ACTION_INTERVAL
                a2 == IF runs THEN [scouted.ai EXCEPT !.timer = 0] ELSE scouted.ai
                c == CurrentUnits(objects, hq["NOD"], "NOD")
                enemy_harvesters == UnitCount(objects, "GDI", "Harvester")
                free == /\ runs
                        /\ GatePurchase(c, a2, hq["NOD"], iron["NOD"], enemy_harvesters) = "None"
                        /\ iron["NOD"] > 0
                choices == IF free
                           THEN Choices(production_options(c, a2, iron["NOD"], enemy_harvesters))
                           ELSE {"None"}
                positions == IF /\ free
                                /\ hq["NOD"].pending_building_class # "None"
                                /\ hq["NOD"].pending_building_pos = NoPoint
                             THEN find_valid_building_position(hq["NOD"].pending_building_class, "NOD")
                             ELSE {NoPoint}
                enemy_military == UnitCount(objects, "GDI", "Tank")
                                  + UnitCount(objects, "GDI", "Infantry")
                                  + CountOf(objects, "GDI", "Turret")
                launches == {"none"}
                            \cup (IF /\ runs /\ ai.wave_number < MaxWaves
                                     /\ a1.surprise_attack_cooldown <= 0 /\ enemy_military < 5
                                  THEN {"surprise"} ELSE {})
                            \cup (IF /\ runs /\ ai.wave_number < MaxWaves
                                     /\ a1.wave_timer >= MIN_WAVE_INTERVAL
                                  THEN {"regular"} ELSE {})
            IN \E choice \in choices, position \in positions, wave \in launches :
               \E tactic \in IF wave # "none" THEN Tactics(a2.state, wave = "surprise")
                                             ELSE {"none"},
                  off \in IF wave # "none" THEN OffsetDraws \X OffsetDraws ELSE {<<0, 0>>} :
                  LET b == IF runs
                           THEN buy_objects(a2, hq["NOD"], iron["NOD"], "NOD", "GDI", choice, position)
                           ELSE [hq |-> hq["NOD"], iron |-> iron["NOD"], bought |-> "None",
                                 new_buildings |-> <<>>, attempted |-> FALSE]
                      launch == wave # "none"
                      ordered == IF launch
                                 THEN coordinate_attack(scouted.objects, "NOD", "GDI", tactic, off,
                                          wave_size(a2.wave_number + 1, wave = "surprise"))
                                 ELSE scouted.objects
                  IN /\ ai' = IF launch
                              THEN [a2 EXCEPT !.wave_number = @ + 1,
                                              !.wave_timer = 0,
                                              !.surprise_attack_cooldown =
                                                  IF wave = "surprise"
                                                  THEN SURPRISE_ATTACK_COOLDOWN ELSE @]
                              ELSE a2
                     /\ hq' = [hq EXCEPT !["NOD"] = b.hq]
                     /\ iron' = [iron EXCEPT !["NOD"] = b.iron]
                     /\ objects' = ordered \o b.new_buildings
                     /\ obs' = [ObsCarry("ai") EXCEPT
                                  !.cycle = [ran |-> runs, barracks |-> c.barracks,
                                             iron |-> iron["NOD"], bought |-> b.bought,
                                             attempted |-> b.attempted],
                                  !.wave = wave]
    /\ UNCHANGED <<fogVars, fields, projectiles, now, selected_building>>

\* The phases of a tick after its start.
TickPhases ==
    \/ UnitsPhase
    \/ FieldsPhase
    \/ BuildingsPhase
    \/ ProjectilesPhase
    \/ CollisionsPhase
    \/ AttacksPhase
    \/ ImpactsPhase
    \/ AIPhase

----------------------------------------------------------------------------
(* The player's commands, handled between two ticks (event loop of src/CondaRTS.py,
   PlayerInterface.handle_click) *)

\* A left click that handle_click does not handle (it returns False) is taken by the
\* event loop as a click on the map: the building under the cursor is selected, or
\* the selection is dropped. The interface panel covers the screen from x = 1720 and
\* the map ends at screen x <= 1660, so no building lies under a panel button.
UnhandledPanelClick == NoObject

\* A buy click that enqueues and deducts whatever the stockpile holds.
BuyOnCredit(cls) ==
    /\ pc = "input"
    /\ hq["GDI"].pending_building_class = "None"
    /\ IF Len(hq["GDI"].production_queue) < MAX_PRODUCTION_QUEUE_LENGTH
       THEN /\ hq' = [hq EXCEPT !["GDI"].production_queue = Append(@, cls)]
            /\ iron' = [iron EXCEPT !["GDI"] = @ - COST(cls)]
            /\ UNCHANGED selected_building
       ELSE /\ UNCHANGED <<hq, iron>>
            /\ selected_building' = UnhandledPanelClick
    /\ obs' = ObsCarry("buy")
    /\ UNCHANGED <<objects, fogVars, fields, projectiles, ai, pc, now>>

\* A left click on the buy button of `cls`, with no building awaiting placement (else
\* the event loop takes the click as a placement attempt). handle_click refuses when
\* the queue holds MAX_PRODUCTION_QUEUE_LENGTH entries or iron is short; the
\* prerequisite req_fn() returns the inner function object and is always truthy; the
\* timer is assigned to the interface's own attribute, not the Headquarters'.
PlayerBuy(cls) ==
    /\ pc = "input"
    /\ hq["GDI"].pending_building_class = "None"
    /\ IF /\ Len(hq["GDI"].production_queue) < MAX_PRODUCTION_QUEUE_LENGTH
          /\ iron["GDI"] >= COST(cls)
       THEN /\ hq' = [hq EXCEPT !["GDI"].production_queue = Append(@, cls)]
            /\ iron' = [iron EXCEPT !["GDI"] = @ - COST(cls)]
            /\ UNCHANGED selected_building
       ELSE /\ UNCHANGED <<hq, iron>>
            /\ selected_building' = UnhandledPanelClick
    /\ obs' = ObsCarry("buy")
    /\ UNCHANGED <<objects, fogVars, fields, projectiles, ai, pc, now>>

\* A left click on the map while a building awaits placement.
PlayerPlace(position) ==
    /\ pc = "input"
    /\ hq["GDI"].pending_building_class # "None"
    /\ LET r == place_building("GDI", hq["GDI"], position, hq["GDI"].pending_building_class)
       IN /\ hq' = [hq EXCEPT !["GDI"] = r.hq]
          /\ objects' = objects \o r.new_buildings
    /\ obs' = ObsCarry("place")
    /\ UNCHANGED <<fogVars, fields, projectiles, iron, ai, pc, now, selected_building>>

\* A right click while a building awaits placement: the pending building is dropped.
PlayerCancel ==
    /\ pc = "input"
    /\ hq["GDI"].pending_building_class # "None"
    /\ hq' = [hq EXCEPT !["GDI"] =
                [@ EXCEPT !.pending_building_class = "None",
                          !.pending_building_pos = NoPoint,
                          !.production_timer =
                              ArmedTimer(objects, hq["GDI"], "GDI", hq["GDI"].production_queue, @)]]
    /\ obs' = ObsCarry("cancel")
    /\ UNCHANGED <<objects, fogVars, fields, projectiles, iron, ai, pc, now, selected_building>>

\* A left click on the map with no building awaiting placement: handle_click does
\* not handle it; the live building of the player under the cursor (`b`) is
\* selected, or none is (b = NoObject) and the selection is dropped.
PlayerSelect(b) ==
    /\ pc = "input"
    /\ hq["GDI"].pending_building_class = "None"
    /\ b \in team_buildings("GDI") \cup {NoObject}
    /\ selected_building' = b
    /\ obs' = ObsCarry("select")
    /\ UNCHANGED <<objects, fogVars, fields, projectiles, iron, hq, ai, pc, now>>

\* Game.delete_selected_building: objects.remove(selected_building).
delete_selected_building(objs, b) == [objs EXCEPT ![b].in_objects = FALSE]

\* A left click on the sell button, with no building awaiting placement.
\* handle_click returns False before it looks at the sell button when the queue holds
\* MAX_PRODUCTION_QUEUE_LENGTH entries; else, with a building selected, half its
\* COST is refunded and the building is deleted.
PlayerSell ==
    /\ pc = "input"
    /\ hq["GDI"].pending_building_class = "None"
    /\ IF /\ Len(hq["GDI"].production_queue) < MAX_PRODUCTION_QUEUE_LENGTH
          /\ selected_building # NoObject
       THEN /\ iron' = [iron EXCEPT !["GDI"] = @ + COST(objects[selected_building].cls) \div 2]
            /\ objects' = delete_selected_building(objects, selected_building)
            /\ selected_building' = NoObject
       ELSE /\ UNCHANGED <<iron, objects>>
            /\ selected_building' = UnhandledPanelClick
    /\ obs' = [ObsCarry("sell") EXCEPT !.sold = selected_building]
    /\ UNCHANGED <<fogVars, fields, projectiles, hq, ai, pc, now>>

\* pg.Rect.collidepoint: the point lies in [left, right) x [top, bottom).
collidepoint(rect, point) ==
    /\ rect.x <= point[1] /\ point[1] < rect.x + rect.w
    /\ rect.y <= point[2] /\ point[2] < rect.y + rect.h

\* next((e for e in ... if rect.collidepoint(...)), None): the first entity of
\* `candidates` under the cursor, or NoObject.
ClickedOf(candidates, RectAt(_), point) ==
    IF \E c \in candidates : collidepoint(RectAt(c), point)
    THEN CHOOSE c \in candidates :
             /\ collidepoint(RectAt(c), point)
             /\ \A e \in candidates : collidepoint(RectAt(e), point) => c <= e
    ELSE NoObject

\* A right click at the map position `point` with no building awaiting placement and
\* the unit `i` of the player selected: the unit is sent to its formation slot around
\* the click; a live enemy unit, else a live enemy building, under the cursor becomes
\* its target; else a field under the cursor becomes its destination and the
\* formation slot is dropped.
PlayerOrder(i, point) ==
    /\ pc = "input"
    /\ hq["GDI"].pending_building_class = "None"
    /\ i \in team_units("GDI")
    /\ LET pos == FirstFormationPosition(point)
           clicked_field == ClickedOf(DOMAIN fields,
                                      LAMBDA f : MakeRect(<<fields[f].x, fields[f].y>>, FIELD_SIZE),
                                      point)
           clicked_enemy_unit == ClickedOf({u \in units : objects[u].team # "GDI"},
                                           LAMBDA u : RectOf(objects[u]), point)
           clicked_enemy_building == ClickedOf({b \in buildings : objects[b].team # "GDI"},
                                               LAMBDA b : RectOf(objects[b]), point)
       IN objects' =
            [objects EXCEPT ![i] =
                IF clicked_enemy_unit # NoObject
                THEN [@ EXCEPT !.target = Position(objects[clicked_enemy_unit]),
                               !.formation_target = pos,
                               !.target_object = clicked_enemy_unit]
                ELSE IF clicked_enemy_building # NoObject
                THEN [@ EXCEPT !.target = Position(objects[clicked_enemy_building]),
                               !.formation_target = pos,
                               !.target_object = clicked_enemy_building]
                ELSE IF clicked_field # NoObject
                THEN [@ EXCEPT !.target = FieldCenter(fields[clicked_field]),
                               !.formation_target = NoPoint,
                               !.target_object = NoObject]
                ELSE [@ EXCEPT !.target = pos,
                               !.formation_target = pos,
                               !.target_object = NoObject]]
    /\ obs' = ObsCarry("order")
    /\ UNCHANGED <<fogVars, fields, projectiles, iron, hq, ai, pc, now, selected_building>>

----------------------------------------------------------------------------
(* The harvest cycle: the match as main sets it up, with one GDI Harvester next to
   its Headquarters and one iron field. *)

MaxHarvestTicks == 150
\* Resources the field may hold at the start: a full field and a nearly empty one.
HarvestFieldResources == {5000, 60}

MatchInit ==
    /\ explored = {}
    /\ visible = {}
    /\ obs = ObsStart
    /\ projectiles = <<>>
    /\ hq = [t \in Teams |-> NewHeadquarters(IF t = "GDI" THEN 1 ELSE 2)]
    /\ pc = "input"
    /\ now = 0
    /\ selected_building = NoObject

HarvestInit ==
    /\ MatchInit
    /\ objects = << NewObject("Headquarters", "GDI", 300, 300),
                    NewObject("Headquarters", "NOD", MAP_WIDTH - 300, MAP_HEIGHT - 300),
                    NewObject("Harvester", "GDI", 375, 385) >>
    /\ \E r \in HarvestFieldResources : fields = << NewField(460, 380, r) >>
    /\ iron = [t \in Teams |-> 1500]
    /\ ai = NewAI(TRUE)

HarvestNext ==
    \/ BeginTick(MaxHarvestTicks)
    \/ TickPhases

SpecHarvest == HarvestInit /\ [][HarvestNext]_vars

\* C3: when the harvest step fires on a field holding r, the field loses exactly
\* h = min(r, 100) and the cargo grows by h; when the Harvester completes its return,
\* the iron its team buys with (Team.iron) grows by the cargo and the cargo becomes 0.
HarvestRoundTrip ==
    [][\A i \in DOMAIN objects :
          objects[i].cls = "Harvester" =>
             /\ (objects[i].state = "harvesting" /\ objects'[i].state = "returning") =>
                   LET f == objects[i].target_field
                       h == Min(fields[f].resources, HARVESTER_CAPACITY)
                   IN /\ fields'[f].resources = fields[f].resources - h
                      /\ objects'[i].iron = objects[i].iron + h
             /\ (objects[i].state = "returning" /\ objects'[i].state = "moving_to_field") =>
                   /\ iron'[objects[i].team] = iron[objects[i].team] + objects[i].iron
                   /\ objects'[i].iron = 0]_vars

----------------------------------------------------------------------------
(* Production at the player's base. Game.objects is filled by the caller and
   Team.iron is a constructor argument: the match starts with the two Headquarters
   and one of two bases whose buildings stand where place_building accepts them,
   one after the other. The player queues purchases before the first tick and
   places or cancels a completed building before the next tick starts. The AI's
   team takes no part. *)

MaxProdTicks == 365
ProdClasses == {"Barracks", "Infantry"}
\* Map positions of the player's placement clicks (place_building snaps them).
ProdClicks == {<<370, 20>>, <<310, 310>>}

\* Two Power Plants leading north from the Headquarters.
NorthBase ==
    << NewObject("PowerPlant", "GDI", 288, 192), NewObject("PowerPlant", "GDI", 320, 64) >>

\* Nine War Factories in two rows north of the Headquarters: they use 315 power,
\* the Headquarters gives 300.
CrowdedBase ==
    [k \in 1 .. 9 |-> NewObject("WarFactory", "GDI",
                                 IF k <= 5 THEN 160 + 64 * (k - 1) ELSE 160 + 64 * (k - 6),
                                 IF k <= 5 THEN 192 ELSE 128)]

ProdInit ==
    /\ MatchInit
    /\ \E base \in {NorthBase, CrowdedBase} :
          objects = << NewObject("Headquarters", "GDI", 300, 300),
                       NewObject("Headquarters", "NOD", MAP_WIDTH - 300, MAP_HEIGHT - 300) >>
                    \o base
    /\ fields = <<>>
    /\ iron = [t \in Teams |-> IF t = "GDI" THEN 700 ELSE 1500]
    /\ ai = NewAI(FALSE)

ProdTick ==
    /\ hq["GDI"].pending_building_class = "None"
    /\ BeginTick(MaxProdTicks)

ProdBuy(cls) ==
    /\ now = 0
    /\ PlayerBuy(cls)

ProdNext ==
    \/ ProdTick
    \/ TickPhases
    \/ \E cls \in ProdClasses : ProdBuy(cls)
    \/ \E position \in ProdClicks : PlayerPlace(position)
    \/ PlayerCancel

SpecProd == ProdInit /\ [][ProdNext]_vars

\* C2: at the end of every tick the bounding box of every live unit lies inside
\* the map rectangle [0, MAP_WIDTH] x [0, MAP_HEIGHT].
UnitsInsideMap ==
    pc = "input" => \A i \in units : InsideMap(RectOf(objects[i]))

\* C5: an item that was at the head of a Headquarters' queue under insufficient
\* power in every update completes after twice the updates its production time T
\* needs with sufficient power: after n updates with (n - 1) / 2 < T <= n / 2.
UnderpoweredTakesTwice ==
    \A t \in Teams :
        obs.completed_unpowered[t] =>
            LET T == get_production_time(objects, obs.completed[t], t)
                n == obs.completed_after[t]
            IN (n - 1) * TimerScale < 2 * T /\ 2 * T <= n * TimerScale

----------------------------------------------------------------------------
(* The AI's purchases. The match holds the two Headquarters; the AI's team (NOD)
   starts with the iron its Team was constructed with, with or without a Harvester
   standing on an iron field next to its base, and with or without a player's
   Infantry within THREAT_RANGE of its Headquarters. The player gives no commands. *)

MaxAITicks == 351
\* Team(iron = ...) of the AI's team.
AIIron == {1500, 1900, 3200}

AIHarvester == NewObject("Harvester", "NOD", 1455, 585)
AIField == NewField(1460, 580, FIELD_MAX_RESOURCES)
AIIntruder == NewObject("Infantry", "GDI", 1100, 500)

AIInit ==
    /\ MatchInit
    /\ \E withHarvester, withIntruder \in BOOLEAN :
          /\ withIntruder => withHarvester
          /\ objects = << NewObject("Headquarters", "GDI", 300, 300),
                          NewObject("Headquarters", "NOD", MAP_WIDTH - 300, MAP_HEIGHT - 300) >>
                       \o (IF withHarvester THEN <<AIHarvester>> ELSE <<>>)
                       \o (IF withIntruder THEN <<AIIntruder>> ELSE <<>>)
          /\ fields = IF withHarvester THEN <<AIField>> ELSE <<>>
    /\ \E n \in AIIron : iron = [t \in Teams |-> IF t = "GDI" THEN 1500 ELSE n]
    /\ ai = NewAI(TRUE)

AINext ==
    \/ BeginTick(MaxAITicks)
    \/ TickPhases

SpecAI == AIInit /\ [][AINext]_vars

\* C4: the production queue of every Headquarters holds at most 5 entries.
QueueWithinLimit ==
    \A t \in Teams : Len(hq[t].production_queue) <= MAX_PRODUCTION_QUEUE_LENGTH

\* The AI's team has no Barracks: none live, none in its production queue.
NoBarracks ==
    /\ \A i \in DOMAIN objects :
          ~(objects[i].cls = "Barracks" /\ objects[i].team = "NOD" /\ objects[i].health > 0)
    /\ \A k \in DOMAIN hq["NOD"].production_queue : hq["NOD"].production_queue[k] # "Barracks"

\* An AI update that runs a purchase cycle is about to be taken.
PurchaseCycleDue == pc = "ai" /\ ai.enabled /\ ai.timer + 1 >= ACTION_INTERVAL

\* C7: a purchase cycle that runs while the AI's team has no Barracks (live or
\* queued) and at least the cost of one in iron enqueues a Barracks and pays for
\* it, whatever the AI's state, its unit counts and the random choice.
BarracksGate ==
    [][(PurchaseCycleDue /\ NoBarracks /\ iron["NOD"] >= COST("Barracks")) =>
          /\ hq'["NOD"].production_queue = Append(hq["NOD"].production_queue, "Barracks")
          /\ iron'["NOD"] = iron["NOD"] - COST("Barracks")]_vars

\* A purchase cycle has bought a Barracks while the AI was not broke, and one that
\* has bought a second Barracks after the first left the queue unplaced.
BarracksGateWitness ==
    /\ obs.op = "ai"
    /\ obs.cycle.ran
    /\ obs.cycle.barracks = 0
    /\ obs.cycle.bought = "Barracks"
    /\ ai.state # "BROKE"

BarracksRebuyWitness ==
    /\ obs.op = "ai"
    /\ obs.cycle.ran
    /\ obs.cycle.barracks = 0
    /\ obs.cycle.bought = "Barracks"
    /\ hq["NOD"].pending_building_class = "Barracks"

----------------------------------------------------------------------------
(* Combat. A skirmish in the middle of the map: a GDI Tank and a GDI Infantry
   against a NOD Infantry and a NOD Harvester (with no iron field to go to). In
   one layout the Tank stands east of the fight and the Harvester within reach of
   the GDI Infantry; in the other the player has ordered the Tank, standing west,
   to attack the NOD Infantry, and the Harvester stands in the line of fire. The
   two Infantry may have been damaged before. *)

MaxTicks == 120
\* health of the NOD Infantry and of the GDI Infantry at the start.
NodInfantryHealth == {60, 8, 5}
GdiInfantryHealth == {100, 10}

\* Entity indices 3 .. 6: Tank, GDI Infantry, NOD Infantry, NOD Harvester.
Skirmish(ordered, n, g) ==
    << IF ordered
       THEN [NewObject("Tank", "GDI", 505, 390) EXCEPT !.target_object = 5,
                                                       !.target = <<700, 400>>]
       ELSE NewObject("Tank", "GDI", 865, 390),
       [NewObject("Infantry", "GDI", 662, 392) EXCEPT !.health = g],
       [NewObject("Infantry", "NOD", 692, 392) EXCEPT !.health = n],
       IF ordered THEN NewObject("Harvester", "NOD", 575, 385)
                  ELSE NewObject("Harvester", "NOD", 665, 421) >>

Init ==
    /\ MatchInit
    /\ \E ordered \in BOOLEAN, n \in NodInfantryHealth, g \in GdiInfantryHealth :
          objects = << NewObject("Headquarters", "GDI", 300, 300),
                       NewObject("Headquarters", "NOD", MAP_WIDTH - 300, MAP_HEIGHT - 300) >>
                    \o Skirmish(ordered, n, g)
    /\ fields = <<>>
    /\ iron = [t \in Teams |-> 1500]
    /\ ai = NewAI(TRUE)

Next ==
    \/ BeginTick(MaxTicks)
    \/ TickPhases

Spec == Init /\ [][Next]_vars

\* The collections the match reports as live.
LiveCollections ==
    {units, buildings} \cup {team_units(t) : t \in Teams} \cup {team_buildings(t) : t \in Teams}

\* C1: after every completed tick every entity in a live collection of the match
\* has 0 < health <= max_health, and no entity with health <= 0 is in any of them.
LiveEntitiesHealthy ==
    pc = "input" =>
        /\ \A S \in LiveCollections : \A i \in S :
              0 < objects[i].health /\ objects[i].health <= objects[i].max_health
        /\ \A i \in DOMAIN objects :
              objects[i].health <= 0 => \A S \in LiveCollections : i \notin S

\* A tick has ended with a dead entity still among the match's objects and a
\* damaged one among its live units.
LiveEntitiesHealthyWitness ==
    /\ pc = "input"
    /\ \E i \in DOMAIN objects : objects[i].health <= 0
    /\ \E i \in units : objects[i].health < objects[i].max_health

\* C8: a melee attack resolved by an Infantry whose cooldown was 0, on a target
\* with health <= 8, has killed the target (it is in no live collection) and has left
\* the attacker without target and target_object and with cooldown_timer 25.
MeleeKill ==
    obs.op = "attacks" =>
        \A n \in DOMAIN obs.melee :
            LET m == obs.melee[n] IN
            m.victim_health <= 8 =>
                /\ objects[m.victim].health <= 0
                /\ \A S \in LiveCollections : m.victim \notin S
                /\ objects[m.attacker].cls = "Infantry"
                /\ objects[m.attacker].target = NoPoint
                /\ objects[m.attacker].target_object = NoObject
                /\ objects[m.attacker].cooldown_timer = 25

\* An Infantry has attacked a target with exactly 8 health.
MeleeKillWitness ==
    /\ obs.op = "attacks"
    /\ \E n \in DOMAIN obs.melee :
          obs.melee[n].victim_health = 8 /\ objects[obs.melee[n].victim].health = 0

\* C9: projectiles.update() leaves no projectile whose target is dead, and
\* handle_projectiles lowers the health of an entity only if it was alive, of the
\* other team than some projectile and its rect collided with that projectile's.
OrphanProjectile ==
    [][/\ pc = "projectiles" =>
             \A k \in DOMAIN projectiles' : objects[projectiles'[k].target_unit].health > 0
       /\ pc = "impacts" =>
             \A i \in DOMAIN objects :
                 objects'[i].health < objects[i].health =>
                     /\ objects[i].health > 0
                     /\ \E k \in DOMAIN projectiles :
                           /\ projectiles[k].team # objects[i].team
                           /\ colliderect(ProjectileRect(projectiles[k]), RectOf(objects[i]))]_vars

\* projectiles.update() has removed a projectile whose target had died.
OrphanProjectileWitness ==
    /\ obs.op = "projectiles"
    /\ obs.removed > 0

----------------------------------------------------------------------------
(* Production time on its own: the match holds both Headquarters and Barracks and
   War Factories of both teams, any of which may have been destroyed;
   Headquarters.update and place_building ask for the production time of a class. *)

\* Buildings the scenario starts with, beside the two Headquarters.
TimeBuildings ==
    << NewObject("Barracks", "GDI", 96, 288), NewObject("Barracks", "GDI", 160, 288),
       NewObject("Barracks", "GDI", 224, 288), NewObject("Barracks", "NOD", 1100, 500),
       NewObject("WarFactory", "GDI", 96, 352), NewObject("WarFactory", "GDI", 160, 352),
       NewObject("WarFactory", "NOD", 1100, 564) >>

TimeInit ==
    /\ objects = << NewObject("Headquarters", "GDI", 300, 300),
                    NewObject("Headquarters", "NOD", MAP_WIDTH - 300, MAP_HEIGHT - 300) >>
                 \o TimeBuildings
    /\ explored = {}
    /\ visible = {}
    /\ obs = [op |-> "init"]
    /\ SimIdle

\* A building is destroyed (its health reaches 0) and leaves Game.buildings.
TimeDeath(i) ==
    /\ i \in buildings
    /\ objects[i].cls # "Headquarters"
    /\ objects' = [objects EXCEPT ![i].health = 0]
    /\ obs' = [op |-> "death"]
    /\ UNCHANGED <<fogVars, simVars>>

\* game.get_production_time(cls, team) is evaluated.
AskProductionTime(cls, team) ==
    /\ obs' = [op |-> "get_production_time", cls |-> cls, team |-> team,
               result |-> get_production_time(objects, cls, team)]
    /\ UNCHANGED <<objects, fogVars, simVars>>

TimeNext ==
    \/ \E i \in DOMAIN objects : TimeDeath(i)
    \/ \E cls \in UnitClasses \cup BuildingClasses, team \in Teams : AskProductionTime(cls, team)

SpecTime == TimeInit /\ [][TimeNext]_vars

\* The number of entities of class `cls` and team obs.team with health above 0.
ObsLiveFriendly(cls) ==
    Cardinality({i \in DOMAIN objects :
                    objects[i].cls = cls /\ objects[i].team = obs.team /\ objects[i].health > 0})

\* result = 180 * 0.9^n, in 1 / TimerScale of a tick (exact for n <= 4).
ObsTimeIs(n) == obs.result * (10 ^ n) = BASE_PRODUCTION_TIME * (9 ^ n) * TimerScale

\* C11: the production time of Infantry is 180 * 0.9^n for n live friendly Barracks,
\* that of Tank and Harvester 180 * 0.9^m for m live friendly War Factories, that of
\* every building class 180; destroyed buildings and the other team's do not count.
ProductionTimeFormula ==
    obs.op = "get_production_time" =>
        CASE obs.cls = "Infantry"             -> ObsTimeIs(ObsLiveFriendly("Barracks"))
          [] obs.cls \in {"Tank", "Harvester"} -> ObsTimeIs(ObsLiveFriendly("WarFactory"))
          [] OTHER                            -> obs.result = 180 * TimerScale

\* The time of Infantry was asked with two live friendly Barracks, a destroyed
\* friendly one and a live enemy one, and was 145.8 ticks.
ProductionTimeFormulaWitness ==
    /\ obs.op = "get_production_time"
    /\ obs.cls = "Infantry" /\ obs.team = "GDI"
    /\ ObsLiveFriendly("Barracks") = 2
    /\ \E i \in DOMAIN objects :
          objects[i].cls = "Barracks" /\ objects[i].team = "GDI" /\ objects[i].health = 0
    /\ \E i \in buildings : objects[i].cls = "Barracks" /\ objects[i].team = "NOD"
    /\ obs.result * 10 = 1458 * TimerScale

----------------------------------------------------------------------------
(* The player's purchases (checked on SpecProd) *)

\* C12: a purchase click of the player is accepted (the class is appended to the
\* queue and its COST deducted) only if the iron covers the COST, the queue holds
\* fewer than 5 entries and the prerequisite holds: a live friendly Barracks for
\* Infantry, a live friendly War Factory for Tank and Harvester; otherwise the queue
\* and the iron are unchanged.
EnqueueValidated ==
    [][(pc = "input" /\ pc' = "input") =>
          LET queue == hq["GDI"].production_queue
              accepted == hq'["GDI"].production_queue # queue \/ iron' # iron
              cls == hq'["GDI"].production_queue[Len(hq'["GDI"].production_queue)]
              Has(b) == \E i \in DOMAIN objects :
                           objects[i].cls = b /\ objects[i].team = "GDI" /\ objects[i].health > 0
          IN accepted =>
                /\ hq'["GDI"].production_queue = Append(queue, cls)
                /\ iron'["GDI"] = iron["GDI"] - COST(cls)
                /\ iron["GDI"] >= COST(cls)
                /\ Len(queue) < 5
                /\ cls = "Infantry" => Has("Barracks")
                /\ cls \in {"Tank", "Harvester"} => Has("WarFactory")]_vars

----------------------------------------------------------------------------
(* Selling. The player's base holds the Headquarters, a Barracks and a Power
   Plant; between two ticks the player queues purchases, selects buildings and
   clicks the sell button. *)

SellClasses == {"Infantry", "PowerPlant"}

SellInit ==
    /\ MatchInit
    /\ objects = << NewObject("Headquarters", "GDI", 300, 300),
                    NewObject("Headquarters", "NOD", MAP_WIDTH - 300, MAP_HEIGHT - 300),
                    NewObject("Barracks", "GDI", 224, 320),
                    NewObject("PowerPlant", "GDI", 288, 192) >>
    /\ fields = <<>>
    /\ iron = [t \in Teams |-> 1500]
    /\ ai = NewAI(FALSE)

SellNext ==
    \/ \E cls \in SellClasses : PlayerBuy(cls)
    \/ \E b \in DOMAIN objects \cup {NoObject} : PlayerSelect(b)
    \/ PlayerSell

SpecSell == SellInit /\ [][SellNext]_vars

\* C13: whenever the player has a building selected and clicks the sell button,
\* whatever the production queue holds, the building is removed from the match, the
\* team's iron grows by floor(COST / 2) of its class and the selection becomes empty.
SellRefundsHalf ==
    [][(obs'.op = "sell" /\ selected_building # NoObject) =>
          /\ selected_building \notin LiveBuildings(objects')
          /\ iron'["GDI"] = iron["GDI"] + COST(objects[selected_building].cls) \div 2
          /\ selected_building' = NoObject]_vars

----------------------------------------------------------------------------
(* The player's orders. The match holds the two Headquarters, a GDI Harvester next
   to its Headquarters, a GDI Infantry, a NOD Power Plant and two iron fields; the
   player right-clicks with one unit selected, before the first tick and while the
   Harvester is on its way back. The AI takes no part. *)

MaxOrderTicks == 125
\* The ticks after which the player's right clicks arrive.
OrderTicks == {0, 80}
\* The right clicks: <<selected unit, map position>>. The Harvester is sent to open
\* ground; the Infantry to the second field or at the enemy Power Plant.
OrderClicks == {<<3, <<480, 330>>>>, <<4, <<420, 540>>>>, <<4, <<590, 590>>>>}

OrderInit ==
    /\ MatchInit
    /\ objects = << NewObject("Headquarters", "GDI", 300, 300),
                    NewObject("Headquarters", "NOD", MAP_WIDTH - 300, MAP_HEIGHT - 300),
                    NewObject("Harvester", "GDI", 375, 385),
                    NewObject("Infantry", "GDI", 420, 470),
                    NewObject("PowerPlant", "NOD", 560, 560) >>
    /\ fields = << NewField(460, 380, FIELD_MAX_RESOURCES),
                   NewField(400, 520, FIELD_MAX_RESOURCES) >>
    /\ iron = [t \in Teams |-> 1500]
    /\ ai = NewAI(FALSE)

OrderClick(i, point) ==
    /\ now \in OrderTicks
    /\ PlayerOrder(i, point)

OrderNext ==
    \/ BeginTick(MaxOrderTicks)
    \/ TickPhases
    \/ \E c \in OrderClicks : OrderClick(c[1], c[2])

SpecOrders == OrderInit /\ [][OrderNext]_vars

\* The Harvester `i` deposits in this step: it leaves "returning" for "moving_to_field".
Deposits(i) ==
    /\ objects[i].cls = "Harvester"
    /\ objects[i].state = "returning"
    /\ objects'[i].state = "moving_to_field"

\* C14: a Harvester deposits its cargo only in a tick in which it is closer than 30
\* to its own Headquarters, also after the player has given it orders on its way back.
DepositAtHeadquarters ==
    [][\A i \in DOMAIN objects :
          Deposits(i) =>
             LET home == Position(objects[hq[objects[i].team].obj])
             IN \/ Dist2(Position(objects[i]), home) < Square(30)
                \/ Dist2(Position(objects'[i]), home) < Square(30)]_vars

\* The state changes of the Harvester state machine.
HarvesterTransitions ==
    {<<"moving_to_field", "harvesting">>, <<"harvesting", "returning">>,
     <<"returning", "moving_to_field">>}

\* C15: a Harvester starts in MOVING_TO_FIELD and only ever goes MOVING_TO_FIELD ->
\* HARVESTING -> RETURNING -> MOVING_TO_FIELD; cargo grows and a field shrinks only on
\* HARVESTING -> RETURNING, cargo is unloaded and a Headquarters' iron grows only on
\* RETURNING -> MOVING_TO_FIELD.
HarvesterCycle ==
    /\ \A i \in DOMAIN objects :
          objects[i].cls = "Harvester" => objects[i].state = "moving_to_field"
    /\ [][LET harvesters == {i \in DOMAIN objects : objects[i].cls = "Harvester"}
              Goes(i, from, to) == objects[i].state = from /\ objects'[i].state = to
          IN /\ \A i \in DOMAIN objects' \ DOMAIN objects :
                    objects'[i].cls = "Harvester" => objects'[i].state = "moving_to_field"
             /\ \A i \in harvesters :
                    /\ \/ objects'[i].state = objects[i].state
                       \/ <<objects[i].state, objects'[i].state>> \in HarvesterTransitions
                    /\ objects'[i].iron > objects[i].iron => Goes(i, "harvesting", "returning")
                    /\ objects'[i].iron < objects[i].iron => Goes(i, "returning", "moving_to_field")
             /\ \A f \in DOMAIN fields :
                    fields'[f].resources < fields[f].resources =>
                        \E i \in harvesters :
                            objects[i].target_field = f /\ Goes(i, "harvesting", "returning")
             /\ \A t \in Teams :
                    hq'[t].iron > hq[t].iron =>
                        \E i \in harvesters :
                            objects[i].team = t /\ Goes(i, "returning", "moving_to_field")]_vars

\* A Harvester is back in MOVING_TO_FIELD with its cargo unloaded into its
\* Headquarters, after the player's order on its way back.
HarvesterCycleWitness ==
    \E i \in DOMAIN objects :
        /\ objects[i].cls = "Harvester"
        /\ objects[i].state = "moving_to_field"
        /\ objects[i].iron = 0
        /\ objects[i].formation_target # NoPoint
        /\ hq[objects[i].team].iron > NewHeadquarters(1).iron
        /\ \E f \in DOMAIN fields : fields[f].resources < FIELD_MAX_RESOURCES

\* C16: a mobile unit with no live target_object and no formation_target whose plain
\* target point is set and that is within ARRIVAL_RADIUS (5) of it has its target
\* cleared by the movement update.
TargetClearedOnArrival ==
    [][pc = "units" =>
          \A i \in LiveUnits(objects) :
              (/\ objects[i].cls \in {"Infantry", "Tank"}
               /\ objects[i].target # NoPoint
               /\ objects[i].formation_target = NoPoint
               /\ \/ objects[i].target_object = NoObject
                  \/ objects[objects[i].target_object].health <= 0
               /\ Dist2(Position(objects[i]), objects[i].target) <= Square(5))
              => objects'[i].target = NoPoint]_vars

\* C17: a unit with a live target_object that moves in its movement update, while
\* the target_object stays where it is, does not end the update closer to the
\* target_object than its own attack range.
KeepsAttackRange ==
    [][pc = "units" =>
          \A i \in LiveUnits(objects) :
              LET t == objects[i].target_object
              IN (/\ objects[i].cls \in {"Infantry", "Tank"}
                  /\ t # NoObject
                  /\ objects[t].health > 0
                  /\ Position(objects'[t]) = Position(objects[t])
                  /\ Position(objects'[i]) # Position(objects[i]))
                 => Dist2(Position(objects'[i]), Position(objects[t]))
                        >= Square(ATTACK_RANGE(objects[i].cls))]_vars

----------------------------------------------------------------------------
(* Visibility (checked on SpecFog) *)

\* The tile `t` is in sight of the player's team: its centre is within 150 of a live
\* GDI unit or within 200 of a live GDI building, or a live GDI building's centre
\* lies in it.
InSight(t) ==
    \E i \in DOMAIN objects :
        /\ objects[i].team = "GDI"
        /\ objects[i].health > 0
        /\ \/ IsUnit(objects[i]) /\ Dist2(Position(objects[i]), TileCenter(t)) <= Square(150)
           \/ IsBuilding(objects[i]) /\ Dist2(Position(objects[i]), TileCenter(t)) <= Square(200)
           \/ IsBuilding(objects[i]) /\ tile(Position(objects[i])) = t

\* C18: after a visibility update for the player's team a tile is visible if and
\* only if it is in sight of the team; the tile of a live enemy building out of
\* sight is not visible.
VisibleIffInSight ==
    obs.op = "update_visibility" =>
        \A t \in (0 .. TilesX - 1) \X (0 .. TilesY - 1) : t \in visible <=> InSight(t)

----------------------------------------------------------------------------
(* The production queue (checked on SpecProd and SpecAI) *)

\* The team `t` has a live building of class `cls`.
HasLive(t, cls) ==
    \E i \in DOMAIN objects :
        objects[i].cls = cls /\ objects[i].team = t /\ objects[i].health > 0

\* C19: when the timer expires for a unit class at the head of the queue and the
\* team has no live producer building for it (Barracks for Infantry, War Factory for
\* Tank and Harvester), the head is removed, the rest of the queue keeps its order,
\* no unit is added to the match and no iron is refunded.
LostWithoutProducer ==
    [][pc = "buildings" =>
          \A t \in Teams :
              LET queue == hq[t].production_queue
              IN (/\ hq'[t].production_queue # queue
                  /\ Head(queue) \in UnitClasses
                  /\ ~HasLive(t, IF Head(queue) = "Infantry" THEN "Barracks" ELSE "WarFactory"))
                 => /\ hq'[t].production_queue = Tail(queue)
                    /\ \A i \in DOMAIN objects' \ DOMAIN objects : objects'[i].team # t
                    /\ \A i \in DOMAIN objects : objects'[i] = objects[i]
                    /\ iron'[t] = iron[t]
                    /\ hq'[t].iron = hq[t].iron]_vars

\* An Infantry left the head of the player's queue with no Barracks in the match
\* and two more entries behind it.
LostWithoutProducerWitness ==
    /\ obs.op = "buildings"
    /\ obs.completed["GDI"] = "Infantry"
    /\ ~HasLive("GDI", "Barracks")
    /\ hq["GDI"].production_queue = <<"Infantry", "Barracks">>
    /\ \A i \in DOMAIN objects : objects[i].cls # "Infantry"

\* A match in which both teams buy: the player clicks buy buttons before the first
\* tick, the AI runs its purchase cycles, and both Headquarters work their queues.
MaxQueueTicks == 365
QueueClasses == {"Infantry", "Harvester"}

QueueInit ==
    /\ MatchInit
    /\ objects = << NewObject("Headquarters", "GDI", 300, 300),
                    NewObject("Headquarters", "NOD", MAP_WIDTH - 300, MAP_HEIGHT - 300) >>
    /\ fields = <<>>
    /\ iron = [t \in Teams |-> 1500]
    /\ ai = NewAI(TRUE)

QueueBuy(cls) ==
    /\ now = 0
    /\ PlayerBuy(cls)

QueueNext ==
    \/ BeginTick(MaxQueueTicks)
    \/ TickPhases
    \/ \E cls \in QueueClasses : QueueBuy(cls)

SpecQueue == QueueInit /\ [][QueueNext]_vars

\* C20: the production queue is first in, first out. A Headquarters update leaves
\* the queue alone or removes its head; every other step (the player's buy click,
\* the AI's purchases) leaves the queue alone or appends at its tail.
QueueIsFifo ==
    [][\A t \in Teams :
          LET queue == hq[t].production_queue
              after == hq'[t].production_queue
          IN IF pc = "buildings"
             THEN after = queue \/ (queue # <<>> /\ after = Tail(queue))
             ELSE /\ Len(after) >= Len(queue)
                  /\ SubSeq(after, 1, Len(queue)) = queue]_vars

\* The player's Headquarters has just completed the oldest of three entries and the
\* two younger ones are still queued in the order they were bought, while the AI's
\* two purchases wait in its own queue.
QueueIsFifoWitness ==
    /\ obs.op = "buildings"
    /\ obs.completed["GDI"] = "Infantry"
    /\ hq["GDI"].production_queue = <<"Harvester", "Infantry">>
    /\ hq["NOD"].production_queue = <<"Barracks", "WarFactory">>

----------------------------------------------------------------------------
(* The pending building (checked on SpecPending) *)

\* The player queues buildings before the first tick and places or cancels a
\* completed one some time later, or never: the match runs on meanwhile.
MaxPendingTicks == 365
PendingClasses == {"Barracks", "PowerPlant"}
\* The ticks after which the player clicks on the map.
PendingClickTicks == {200, 365}

PendingInit ==
    /\ MatchInit
    /\ objects = << NewObject("Headquarters", "GDI", 300, 300),
                    NewObject("Headquarters", "NOD", MAP_WIDTH - 300, MAP_HEIGHT - 300) >>
    /\ fields = <<>>
    /\ iron = [t \in Teams |-> 1500]
    /\ ai = NewAI(FALSE)

PendingBuy(cls) ==
    /\ now = 0
    /\ PlayerBuy(cls)

PendingPlace(position) ==
    /\ now \in PendingClickTicks
    /\ PlayerPlace(position)

PendingCancel ==
    /\ now \in PendingClickTicks
    /\ PlayerCancel

PendingNext ==
    \/ BeginTick(MaxPendingTicks)
    \/ TickPhases
    \/ \E cls \in PendingClasses : PendingBuy(cls)
    \/ \E position \in ProdClicks : PendingPlace(position)
    \/ PendingCancel

SpecPending == PendingInit /\ [][PendingNext]_vars

\* C21: while a Headquarters has a pending building, its update completes no
\* further building, and the pending building changes only by being cleared.
OnePendingBuilding ==
    [][\A t \in Teams :
          hq[t].pending_building_class # "None" =>
              /\ hq'[t].pending_building_class \in {hq[t].pending_building_class, "None"}
              /\ (/\ pc = "buildings"
                  /\ hq[t].production_queue # <<>>
                  /\ Head(hq[t].production_queue) \in BuildingClasses)
                 => hq'[t].production_queue = hq[t].production_queue]_vars

----------------------------------------------------------------------------
(* The attack cooldown (checked on SpecGarrison) *)

\* A GDI Turret with a NOD Tank parked in its range, and a GDI Infantry next to
\* a NOD Harvester: an attacker of every kind has an enemy at hand.
MaxGarrisonTicks == 60
GarrisonTankHealth == {120, 45}

GarrisonInit ==
    /\ MatchInit
    /\ \E h \in GarrisonTankHealth :
          objects = << NewObject("Headquarters", "GDI", 300, 300),
                       NewObject("Headquarters", "NOD", MAP_WIDTH - 300, MAP_HEIGHT - 300),
                       NewObject("Turret", "GDI", 600, 400),
                       [NewObject("Tank", "NOD", 700, 420) EXCEPT !.health = h],
                       NewObject("Infantry", "GDI", 900, 600),
                       NewObject("Harvester", "NOD", 930, 600) >>
    /\ fields = <<>>
    /\ iron = [t \in Teams |-> 1500]
    /\ ai = NewAI(FALSE)

GarrisonNext ==
    \/ BeginTick(MaxGarrisonTicks)
    \/ TickPhases

SpecGarrison == GarrisonInit /\ [][GarrisonNext]_vars

\* attack_cooldown / ATTACK_COOLDOWN_PERIOD of the attacker kinds.
CooldownPeriod(cls) ==
    CASE cls = "Infantry"  -> ATTACK_COOLDOWN_PERIOD("Infantry")
      [] cls = "Tank"      -> ATTACK_COOLDOWN_PERIOD("Tank")
      [] cls = "Harvester" -> HARVESTER_ATTACK_COOLDOWN
      [] cls = "Turret"    -> TURRET_ATTACK_COOLDOWN

\* C22: an attacker that attacked at tick t and set its cooldown_timer to its
\* cooldown period P attacks again at tick t + P at the earliest, and no
\* cooldown_timer is ever negative.
CooldownRespected ==
    [][\A i \in DOMAIN objects :
          /\ objects'[i].cooldown_timer >= 0
          /\ (/\ objects'[i].cooldown_timer > objects[i].cooldown_timer
              /\ i \in DOMAIN obs.last_attack)
             => /\ objects'[i].cooldown_timer = CooldownPeriod(objects[i].cls)
                /\ now >= obs.last_attack[i] + CooldownPeriod(objects[i].cls)]_vars

----------------------------------------------------------------------------
(* The AI's purchases with little iron (checked on SpecPoorAI) *)

\* The AI starts with less iron than a Barracks costs, or with enough for a
\* Barracks but not for a War Factory after it; it has no Harvester and no income.
MaxPoorTicks == 101
PoorIron == {400, 1300}

PoorInit ==
    /\ MatchInit
    /\ objects = << NewObject("Headquarters", "GDI", 300, 300),
                    NewObject("Headquarters", "NOD", MAP_WIDTH - 300, MAP_HEIGHT - 300) >>
    /\ fields = <<>>
    /\ \E n \in PoorIron : iron = [t \in Teams |-> IF t = "GDI" THEN 1500 ELSE n]
    /\ ai = NewAI(TRUE)

PoorNext ==
    \/ BeginTick(MaxPoorTicks)
    \/ TickPhases

SpecPoorAI == PoorInit /\ [][PoorNext]_vars

\* The AI's team has no War Factory: none live, none in its production queue.
NoWarFactory ==
    /\ \A i \in DOMAIN objects :
          ~(objects[i].cls = "WarFactory" /\ objects[i].team = "NOD" /\ objects[i].health > 0)
    /\ \A k \in DOMAIN hq["NOD"].production_queue : hq["NOD"].production_queue[k] # "WarFactory"

\* C23: a purchase cycle that runs while the AI's team has no Barracks (live or
\* queued) enqueues nothing but a Barracks, and one that runs while it has a
\* Barracks but no War Factory (live or queued) enqueues nothing but a War
\* Factory, whatever the iron.
HardGates ==
    [][PurchaseCycleDue =>
          LET queue == hq["NOD"].production_queue
              after == hq'["NOD"].production_queue
              added == {after[k] : k \in (Len(queue) + 1) .. Len(after)}
          IN /\ NoBarracks => added \subseteq {"Barracks"}
             /\ (~NoBarracks /\ NoWarFactory) => added \subseteq {"WarFactory"}]_vars

----------------------------------------------------------------------------
(* The AI's purchase cycle (checked on SpecAI) *)

\* C24: the AI's purchases run in every 50th AI update and in no other; a run
\* appends at most one class to the Headquarters' queue, the team pays exactly the
\* cost of the class appended, and iron is unchanged when nothing is appended.
OnePurchasePerCycle ==
    [][(pc = "ai" /\ ai.enabled) =>
          LET queue == hq["NOD"].production_queue
              after == hq'["NOD"].production_queue
          IN /\ obs'.cycle.ran <=> (now % ACTION_INTERVAL = 0)
             /\ Len(after) \in {Len(queue), Len(queue) + 1}
             /\ SubSeq(after, 1, Len(queue)) = queue
             /\ IF Len(after) = Len(queue) + 1
                THEN /\ obs'.cycle.ran
                     /\ iron'["NOD"] = iron["NOD"] - COST(after[Len(after)])
                ELSE iron'["NOD"] = iron["NOD"]
             /\ iron'["GDI"] = iron["GDI"]]_vars

\* The AI's third purchase cycle has just bought something and paid for it.
OnePurchasePerCycleWitness ==
    /\ obs.op = "ai"
    /\ now = 3 * ACTION_INTERVAL
    /\ obs.cycle.ran
    /\ obs.cycle.bought # "None"
    /\ iron["NOD"] = obs.cycle.iron - COST(obs.cycle.bought)

----------------------------------------------------------------------------
(* The AI's free purchase (checked on SpecEstablished) *)

\* The AI has its Headquarters, a Barracks, a War Factory and a Power Plant, 1000
\* iron, and a Harvester on its way home with a full load. The player has a
\* Headquarters alone (the AI's state is BUILD_UP) or nine War Factories as well
\* (more than eight entities: AGGRESSIVE).
MaxEstablishedTicks == 51

EstablishedBase ==
    << NewObject("Barracks", "NOD", 1100, 500),
       NewObject("WarFactory", "NOD", 1100, 400),
       NewObject("PowerPlant", "NOD", 1200, 400),
       [NewObject("Harvester", "NOD", 1000, 200) EXCEPT
           !.state = "returning", !.iron = HARVESTER_CAPACITY,
           !.target = Position(NewObject("Headquarters", "NOD", MAP_WIDTH - 300, MAP_HEIGHT - 300))] >>

EstablishedInit ==
    /\ MatchInit
    /\ \E large \in BOOLEAN :
          objects = << NewObject("Headquarters", "GDI", 300, 300),
                       NewObject("Headquarters", "NOD", MAP_WIDTH - 300, MAP_HEIGHT - 300) >>
                    \o EstablishedBase \o (IF large THEN CrowdedBase ELSE <<>>)
    /\ fields = <<>>
    /\ iron = [t \in Teams |-> IF t = "GDI" THEN 1500 ELSE 1000]
    /\ ai = NewAI(TRUE)

EstablishedNext ==
    \/ BeginTick(MaxEstablishedTicks)
    \/ TickPhases

SpecEstablished == EstablishedInit /\ [][EstablishedNext]_vars

\* The classes the BUILD_UP / AGGRESSIVE branch of _buy_objects lists for the AI
\* as it stands: affordable and under their quota.
BalancedOptions ==
    production_options(CurrentUnits(objects, hq["NOD"], "NOD"),
                       [ai EXCEPT !.state = "AGGRESSIVE"], iron["NOD"],
                       UnitCount(objects, "GDI", "Harvester"))

\* No gate of _buy_objects (Barracks, War Factory, Power Plant, Harvester top-up)
\* fires for the AI as it stands.
NoGateFires ==
    GatePurchase(CurrentUnits(objects, hq["NOD"], "NOD"),
                 determine_state(ai, "NOD", "GDI"), hq["NOD"], iron["NOD"],
                 UnitCount(objects, "GDI", "Harvester")) = "None"

\* C25: a purchase cycle in state BUILD_UP or AGGRESSIVE in which no gate fires
\* and some class is affordable and under its quota enqueues exactly one of the
\* affordable classes under their quota.
BalancedPurchase ==
    [][(/\ PurchaseCycleDue
        /\ determine_state(ai, "NOD", "GDI").state \in {"BUILD_UP", "AGGRESSIVE"}
        /\ NoGateFires
        /\ BalancedOptions # {})
       => \E cls \in BalancedOptions :
             hq'["NOD"].production_queue = Append(hq["NOD"].production_queue, cls)]_vars

----------------------------------------------------------------------------
(* The AI's attack waves (checked on SpecWave) *)

\* The AI has two Tanks and fifteen Infantry standing idle in the middle of the
\* map (two of the Infantry will be sent scouting), an Infantry that is already on
\* its way somewhere, and a Harvester; a Power Plant of the player stands within
\* 250 of the Infantry and out of everybody's attack range.
MaxWaveTicks == 152

WaveArmy ==
    [k \in 1 .. 17 |->
        IF k <= 2 THEN NewObject("Tank", "NOD", 700 + 80 * (k - 1), 520)
        ELSE NewObject("Infantry", "NOD", 700 + 40 * ((k - 3) % 5), 380 + 40 * ((k - 3) \div 5))]

WaveInit ==
    /\ MatchInit
    /\ objects = << NewObject("Headquarters", "GDI", 300, 300),
                    NewObject("Headquarters", "NOD", MAP_WIDTH - 300, MAP_HEIGHT - 300),
                    NewObject("PowerPlant", "GDI", 780, 200),
                    [NewObject("Infantry", "NOD", 600, 600) EXCEPT !.target = <<300, 700>>],
                    NewObject("Harvester", "NOD", 900, 600) >>
                 \o WaveArmy
    /\ fields = <<>>
    /\ iron = [t \in Teams |-> 1500]
    /\ ai = NewAI(TRUE)

WaveNext ==
    \/ BeginTick(MaxWaveTicks)
    \/ TickPhases

SpecWave == WaveInit /\ [][WaveNext]_vars

\* The entities whose target or target_object the step changes.
Reordered ==
    {i \in DOMAIN objects :
        \/ objects'[i].target # objects[i].target
        \/ objects'[i].target_object # objects[i].target_object}

\* C26: an attack coordination adds 1 to the wave counter and sets the wave timer
\* to 0; with w the new counter it gives orders to at most min(8 + 2w, 25) units
\* (min(12 + w, 25) in a surprise attack), each of them a Tank or Infantry of the
\* AI's team that had no target.
WaveOrders ==
    [][(pc = "ai" /\ obs'.wave # "none") =>
          /\ ai'.wave_number = ai.wave_number + 1
          /\ ai'.wave_timer = 0
          /\ Cardinality(Reordered) <=
                 (IF obs'.wave = "surprise"
                  THEN Min(12 + ai'.wave_number, 25) ELSE Min(8 + 2 * ai'.wave_number, 25))
          /\ \A i \in Reordered :
                /\ objects[i].team = "NOD"
                /\ objects[i].cls \in {"Tank", "Infantry"}
                /\ objects[i].target = NoPoint]_vars

\* A surprise attack has just sent thirteen of the fifteen idle units to flank the
\* player's Headquarters, and left the other two, the scouts and the busy Infantry
\* alone.
WaveOrdersWitness ==
    /\ obs.op = "ai"
    /\ obs.wave = "surprise"
    /\ ai.wave_number = 1
    /\ Cardinality({i \in DOMAIN objects : objects[i].target_object = 1}) = 13
    /\ objects[4].target = <<300, 700>>

----------------------------------------------------------------------------
(* The AI's target choice on its own (checked on SpecTarget): a NOD Infantry
   asks for its priority target while the player's Infantry, Harvester and
   Turret stand at various places, damaged or not, alive or not. *)

\* Rect positions (top-left) of the player's entities in the scenario.
TargetPlaces == {<<900, 400>>, <<760, 440>>, <<1250, 400>>}
TargetHealths == {0, 20, 100}

TargetInit ==
    /\ objects = << NewObject("Headquarters", "GDI", 300, 300),
                    NewObject("Headquarters", "NOD", MAP_WIDTH - 300, MAP_HEIGHT - 300),
                    NewObject("Infantry", "NOD", 700, 400),
                    NewObject("Infantry", "GDI", 900, 400),
                    NewObject("Harvester", "GDI", 1250, 400),
                    NewObject("Turret", "GDI", 480, 400) >>
    /\ explored = {}
    /\ visible = {}
    /\ obs = [op |-> "init"]
    /\ SimIdle

\* Since the last call the player's unit `i` has moved to `place`.
TargetMove(i, place) ==
    /\ i \in units
    /\ objects[i].team = "GDI"
    /\ objects' = [objects EXCEPT ![i].x = place[1], ![i].y = place[2]]
    /\ obs' = [op |-> "move"]
    /\ UNCHANGED <<fogVars, simVars>>

\* Since the last call the player's entity `i` has been damaged or destroyed.
TargetDamage(i, health) ==
    /\ objects[i].team = "GDI"
    /\ objects[i].cls # "Headquarters"
    /\ health < objects[i].health
    /\ objects' = [objects EXCEPT ![i].health = health]
    /\ obs' = [op |-> "damage"]
    /\ UNCHANGED <<fogVars, simVars>>

\* _determine_priority_target(unit, enemy_units, enemy_buildings) is evaluated.
AskPriorityTarget(unit) ==
    /\ objects[unit].team = "NOD"
    /\ objects[unit].cls = "Infantry"
    /\ obs' = [op |-> "determine_priority_target", unit |-> unit,
               result |-> determine_priority_target(objects, unit, "GDI")]
    /\ UNCHANGED <<objects, fogVars, simVars>>

TargetNext ==
    \/ \E i \in DOMAIN objects, place \in TargetPlaces : TargetMove(i, place)
    \/ \E i \in DOMAIN objects, health \in TargetHealths : TargetDamage(i, health)
    \/ \E unit \in DOMAIN objects : AskPriorityTarget(unit)

SpecTarget == TargetInit /\ [][TargetNext]_vars

\* Twice the priority weight the rule gives an enemy: 3 Harvester, 2.5
\* Headquarters, 2 Turret, 1.5 below 30% of its health, else 1.
RuleWeight2(o) ==
    IF o.cls = "Harvester" THEN 6
    ELSE IF o.cls = "Headquarters" THEN 5
    ELSE IF o.cls = "Turret" THEN 4
    ELSE IF o.health * 10 < o.max_health * 3 THEN 3
    ELSE 2

\* The live enemies closer than 250 to the unit that asked.
EligibleTargets ==
    {e \in DOMAIN objects :
        /\ objects[e].team = "GDI" /\ objects[e].health > 0
        /\ Dist2(Position(objects[obs.unit]), Position(objects[e])) < Square(TARGET_PRIORITY_RANGE)}

\* C27: the priority target is one of the live enemies closer than 250 to the
\* unit with the least distance / priority_weight among them, and there is none
\* only when no live enemy is closer than 250.
PriorityTargetInRange ==
    obs.op = "determine_priority_target" =>
        LET D2(e) == Dist2(Position(objects[obs.unit]), Position(objects[e]))
        IN IF EligibleTargets = {} THEN obs.result = NoObject
           ELSE /\ obs.result \in EligibleTargets
                /\ \A f \in EligibleTargets :
                      D2(obs.result) * Square(RuleWeight2(objects[f]))
                          <= D2(f) * Square(RuleWeight2(objects[obs.result]))

----------------------------------------------------------------------------
(* The impact of a projectile (checked on SpecVolley): three GDI Tanks open fire
   on one NOD Infantry, two from 100 away on either side and one from 190 away. *)

MaxVolleyTicks == 60
VolleyInfantryHealth == {100, 15}

VolleyInit ==
    /\ MatchInit
    /\ \E h \in VolleyInfantryHealth :
          objects = << NewObject("Headquarters", "GDI", 300, 300),
                       NewObject("Headquarters", "NOD", MAP_WIDTH - 300, MAP_HEIGHT - 300),
                       [NewObject("Infantry", "NOD", 760, 402) EXCEPT !.health = h],
                       NewObject("Tank", "GDI", 653, 400),
                       NewObject("Tank", "GDI", 853, 400),
                       NewObject("Tank", "GDI", 753, 210) >>
    /\ fields = <<>>
    /\ iron = [t \in Teams |-> 1500]
    /\ ai = NewAI(FALSE)

VolleyNext ==
    \/ BeginTick(MaxVolleyTicks)
    \/ TickPhases

SpecVolley == VolleyInit /\ [][VolleyNext]_vars

\* The damage the hits n .. Len(hits) of one impact resolution did to entity e.
RECURSIVE DamageTo(_, _, _, _)
DamageTo(hits, ps, e, n) ==
    IF n > Len(hits) THEN 0
    ELSE (IF hits[n].victim = e THEN ps[hits[n].projectile].damage ELSE 0)
             + DamageTo(hits, ps, e, n + 1)

\* C28: a projectile damages at most one entity, an enemy of its team alive at
\* the moment of impact, and leaves the group in the impact resolution in which
\* it did so: in every impact resolution no projectile hits twice, every victim
\* is a live entity of the other team, the entities lose exactly the damage of
\* the hits, and exactly the projectiles that hit are gone afterwards.
ProjectileHitsOnce ==
    [][pc = "impacts" =>
          LET r == handle_projectiles(objects, projectiles)
              hit == {r.hits[n].projectile : n \in DOMAIN r.hits}
              left == SelectSeq([k \in DOMAIN projectiles |-> k], LAMBDA k : k \notin hit)
          IN /\ Cardinality(hit) = Len(r.hits)
             /\ \A n \in DOMAIN r.hits :
                   /\ objects[r.hits[n].victim].team # projectiles[r.hits[n].projectile].team
                   /\ r.hits[n].victim_health > 0
                   /\ r.hits[n].victim \in units \cup buildings
                      \/ \E m \in 1 .. n - 1 : r.hits[m].victim = r.hits[n].victim
             /\ \A e \in DOMAIN objects :
                   objects'[e].health = objects[e].health - DamageTo(r.hits, projectiles, e, 1)
             /\ projectiles' = [n \in DOMAIN left |-> projectiles[left[n]]]]_vars

\* An impact resolution in which two projectiles hit and a third stayed in flight.
ProjectileHitsOnceWitness ==
    /\ obs.op = "impacts"
    /\ Len(obs.hits) = 2
    /\ projectiles # <<>>

----------------------------------------------------------------------------
(* The arrival of a projectile (checked on SpecSalvage): a NOD Tank fires at a
   GDI Power Plant within its range; the player may select the Power Plant
   before the first tick and sell it while a projectile is in flight or later. *)

MaxSalvageTicks == 40
\* The ticks after which the click on the sell button arrives.
SalvageSellTicks == {5, 30}

SalvageInit ==
    /\ MatchInit
    /\ objects = << NewObject("Headquarters", "GDI", 300, 300),
                    NewObject("Headquarters", "NOD", MAP_WIDTH - 300, MAP_HEIGHT - 300),
                    NewObject("PowerPlant", "GDI", 600, 400),
                    NewObject("Tank", "NOD", 770, 420) >>
    /\ fields = <<>>
    /\ iron = [t \in Teams |-> 1500]
    /\ ai = NewAI(FALSE)

SalvageSelect(b) == now = 0 /\ PlayerSelect(b)

SalvageSell == now \in SalvageSellTicks /\ PlayerSell

SalvageNext ==
    \/ \E b \in DOMAIN objects : SalvageSelect(b)
    \/ SalvageSell
    \/ BeginTick(MaxSalvageTicks)
    \/ TickPhases

SpecSalvage == SalvageInit /\ [][SalvageNext]_vars

\* C29: a projectile removed because it came within 3 of its target, the target
\* having health > 0, has taken its damage off that target's health, and no
\* projectile whose target has health > 0 leaves the group without an enemy of
\* its team having lost at least its damage in the same step.
ArrivalAppliesDamage ==
    [][\A k \in DOMAIN projectiles :
          LET p == projectiles[k]
              t == p.target_unit
              arrived == /\ pc = "projectiles"
                         /\ Dist2(ProjectileCenter(p), Position(objects[t]))
                                <= Square(PROJECTILE_ARRIVAL)
              hit == /\ pc = "impacts"
                     /\ \E n \in DOMAIN handle_projectiles(objects, projectiles).hits :
                           handle_projectiles(objects, projectiles).hits[n].projectile = k
          IN objects[t].health > 0 =>
                /\ (arrived /\ Len(projectiles') < Len(projectiles))
                       => objects'[t].health = objects[t].health - p.damage
                /\ ((arrived \/ hit) /\ Len(projectiles') < Len(projectiles))
                       => \E e \in DOMAIN objects :
                             /\ objects[e].team # p.team
                             /\ objects'[e].health <= objects[e].health - p.damage]_vars

----------------------------------------------------------------------------
(* Collision separation (checked on SpecCrowd): two idle GDI units stand on top
   of each other far from everything else. *)

MaxCrowdTicks == 12
CrowdClasses == {"Infantry", "Tank"}
\* Where the second unit's rect lies relative to the first one's.
CrowdOffsets == {<<6, 0>>, <<-6, 4>>, <<0, -8>>, <<5, 5>>, <<-7, -3>>}

CrowdInit ==
    /\ MatchInit
    /\ \E cls \in CrowdClasses, off \in CrowdOffsets :
          objects = << NewObject("Headquarters", "GDI", 300, 300),
                       NewObject("Headquarters", "NOD", MAP_WIDTH - 300, MAP_HEIGHT - 300),
                       NewObject("Infantry", "GDI", 700, 400),
                       NewObject(cls, "GDI", 700 + off[1], 400 + off[2]) >>
    /\ fields = <<>>
    /\ iron = [t \in Teams |-> 1500]
    /\ ai = NewAI(FALSE)

CrowdNext ==
    \/ BeginTick(MaxCrowdTicks)
    \/ TickPhases

SpecCrowd == CrowdInit /\ [][CrowdNext]_vars

\* C30: the collision step leaves any two distinct live units whose rects
\* overlapped and whose centers differed at least as far apart as they were.
SeparationKeepsDistance ==
    [][pc = "collisions" =>
          \A a, b \in units :
              (/\ a # b
               /\ colliderect(RectOf(objects[a]), RectOf(objects[b]))
               /\ Position(objects[a]) # Position(objects[b]))
              => Dist2(Position(objects'[a]), Position(objects'[b]))
                     >= Dist2(Position(objects[a]), Position(objects[b]))]_vars

----------------------------------------------------------------------------
(* The iron fields (checked on SpecFields): two GDI Harvesters stand on the same
   field and harvest it in the same tick, again and again, while both fields of
   the match regenerate. *)

MaxFieldTicks == 510
\* What the near and the far field hold at the start.
FieldStocks == {<<150, 990>>, <<5000, 4990>>, <<60, 40>>}

FieldsInit ==
    /\ MatchInit
    /\ objects = << NewObject("Headquarters", "GDI", 300, 300),
                    NewObject("Headquarters", "NOD", MAP_WIDTH - 300, MAP_HEIGHT - 300),
                    NewObject("Harvester", "GDI", 450, 380),
                    NewObject("Harvester", "GDI", 460, 392) >>
    /\ \E r \in FieldStocks :
          fields = << NewField(460, 380, r[1]), NewField(700, 600, r[2]) >>
    /\ iron = [t \in Teams |-> 1500]
    /\ ai = NewAI(FALSE)

FieldsNext ==
    \/ BeginTick(MaxFieldTicks)
    \/ TickPhases

SpecFields == FieldsInit /\ [][FieldsNext]_vars

\* C31: every iron field holds between 0 and 5000 in every state, and no step
\* removes a field from the match.
FieldWithinBounds ==
    /\ Len(fields) = 2
    /\ \A f \in DOMAIN fields :
          0 <= fields[f].resources /\ fields[f].resources <= FIELD_MAX_RESOURCES

\* The untouched field has regenerated up to its cap, and both Harvesters carry
\* what they took from the other field in the same tick.
FieldWithinBoundsWitness ==
    /\ now > FIELD_REGEN_PERIOD
    /\ fields[2].resources = FIELD_MAX_RESOURCES
    /\ fields[1].resources < FIELD_MAX_RESOURCES
    /\ objects[3].state = "returning" /\ objects[4].state = "returning"
    /\ objects[3].iron > 0 /\ objects[4].iron > 0

----------------------------------------------------------------------------
(* FogOfWar._reveal on its own (checked on SpecReveal): the fog of a match that
   holds the two Headquarters is revealed around centers at different places
   within their tiles and next to the map's border, with the radius of a unit
   and of a building; update_visibility clears `visible` in between. *)

RevealCenters == {<<304, 304>>, <<316, 300>>, <<20, 20>>}
RevealRadii == {UNIT_REVEAL_RADIUS, BUILDING_REVEAL_RADIUS}

RevealInit ==
    /\ objects = << NewObject("Headquarters", "GDI", 300, 300),
                    NewObject("Headquarters", "NOD", MAP_WIDTH - 300, MAP_HEIGHT - 300) >>
    /\ explored = {}
    /\ visible = {}
    /\ obs = [op |-> "init"]
    /\ SimIdle

\* _reveal(center, radius)
RevealAround(center, radius) ==
    /\ explored' = explored \cup reveal(center, radius)
    /\ visible' = visible \cup reveal(center, radius)
    /\ obs' = [op |-> "reveal", center |-> center, radius |-> radius,
               explored |-> explored, visible |-> visible]
    /\ UNCHANGED <<objects, simVars>>

\* The first statement of update_visibility: `visible` is rebuilt from nothing.
RevealClear ==
    /\ visible # {}
    /\ visible' = {}
    /\ obs' = [op |-> "clear"]
    /\ UNCHANGED <<objects, explored, simVars>>

RevealNext ==
    \/ \E center \in RevealCenters, radius \in RevealRadii : RevealAround(center, radius)
    \/ RevealClear

SpecReveal == RevealInit /\ [][RevealNext]_vars

\* The tiles of the map whose center point lies within `radius` of `center`.
TilesWithin(center, radius) ==
    {t \in (0 .. TilesX - 1) \X (0 .. TilesY - 1) :
        Dist2(center, TileCenter(t)) <= Square(radius)}

\* C32: reveal(center, radius) makes explored and visible exactly the tiles of
\* the map whose center point lies within radius of center, and changes no
\* other tile.
RevealExact ==
    obs.op = "reveal" =>
        /\ explored = obs.explored \cup TilesWithin(obs.center, obs.radius)
        /\ visible = obs.visible \cup TilesWithin(obs.center, obs.radius)

----------------------------------------------------------------------------
(* The way to the field (checked on SpecSpawn): GDI has a Harvester of the match
   set-up, a War Factory and one iron field; before the first tick the player
   may order a second Harvester, which the Headquarters produces. Nobody gives
   an order to a unit. Every tick of the match is eventually played. *)

MaxSpawnTicks == 400
MaxSpawnObjects == 5

SpawnInit ==
    /\ MatchInit
    /\ objects = << NewObject("Headquarters", "GDI", 300, 300),
                    NewObject("Headquarters", "NOD", MAP_WIDTH - 300, MAP_HEIGHT - 300),
                    NewObject("WarFactory", "GDI", 420, 200),
                    NewObject("Harvester", "GDI", 375, 385) >>
    /\ fields = << NewField(460, 380, FIELD_MAX_RESOURCES) >>
    /\ iron = [t \in Teams |-> 1500]
    /\ ai = NewAI(FALSE)

SpawnBuy == now = 0 /\ hq["GDI"].production_queue = <<>> /\ PlayerBuy("Harvester")

SpawnNext ==
    \/ SpawnBuy
    \/ BeginTick(MaxSpawnTicks)
    \/ TickPhases

\* The main loop plays every phase of every tick: a step that moves the loop on
\* (BeginTick, or the phase pc stands at) is possible unless the last tick is over,
\* and it is eventually taken.
SpawnLoopStep ==
    /\ pc = "input" => now < MaxSpawnTicks
    /\ pc' \in {"input", "units", "fields", "buildings", "projectiles", "collisions",
                "attacks", "impacts", "ai", "raised"}
    /\ pc' # pc

SpecSpawn == SpawnInit /\ [][SpawnNext]_vars /\ WF_pc(SpawnLoopStep)

\* The entity with index i is a Harvester of the match.
IsHarvester(i) == i \in DOMAIN objects /\ objects[i].cls = "Harvester"
\* It is harvesting, or it has died.
HarvestingOrDead(i) ==
    i \in DOMAIN objects /\ (objects[i].state = "harvesting" \/ objects[i].health <= 0)

----------------------------------------------------------------------------
(* The flank order on the following ticks (checked on SpecWave) *)

\* The unit with index i carries a flank order: its target_object is the player's
\* Headquarters and its target is one of the flank's offset points.
FlankOrdered(i) ==
    LET o == objects[i]
        home == Position(objects[hq["GDI"].obj])
        Abs(n) == IF n < 0 THEN -n ELSE n
    IN /\ o.team = "NOD" /\ IsUnit(o) /\ o.health > 0
       /\ o.target_object = hq["GDI"].obj
       /\ o.target # NoPoint
       /\ Abs(o.target[1] - home[1]) >= FLANK_DISTANCE - FLANK_SPREAD
       /\ Abs(o.target[2] - home[2]) >= FLANK_DISTANCE - FLANK_SPREAD

\* C34: a unit under a flank order that is still out of its attack range of the
\* live enemy Headquarters and of its offset point keeps the Headquarters as
\* target_object and its offset point as target through every step, and no step
\* takes it farther from the offset point (unless the unit dies).
FlankOrderKept ==
    [][\A i \in DOMAIN objects :
          (/\ FlankOrdered(i)
           /\ objects[hq["GDI"].obj].health > 0
           /\ Dist2(Position(objects[i]), Position(objects[hq["GDI"].obj]))
                  > Square(ATTACK_RANGE(objects[i].cls))
           /\ Dist2(Position(objects[i]), objects[i].target)
                  > Square(ATTACK_RANGE(objects[i].cls))
           /\ objects'[i].health > 0
           /\ pc = "units")
          => /\ objects'[i].target_object = hq["GDI"].obj
             /\ objects'[i].target = objects[i].target
             /\ Dist2(Position(objects'[i]), objects[i].target)
                    < Dist2(Position(objects[i]), objects[i].target)]_vars

----------------------------------------------------------------------------
(* References to dead entities (checked on SpecVolley) *)

\* The unit with index i is alive and its target_object is dead.
HasDeadTarget(i) ==
    /\ IsUnit(objects[i]) /\ objects[i].health > 0
    /\ objects[i].target_object # NoObject
    /\ objects[objects[i].target_object].health <= 0

\* C35: a reference to a dead entity is ignored everywhere: no unit moves toward
\* or keeps a target_object whose health is 0 or less, no projectile tracks one,
\* and the health of a dead entity never changes again.
DeadReferencesIgnored ==
    [][/\ \A i \in DOMAIN objects :
             objects[i].health <= 0 => objects'[i].health = objects[i].health
       /\ pc = "projectiles" =>
             \A k \in DOMAIN projectiles' :
                 objects[projectiles'[k].target_unit].health > 0
       /\ \A i \in DOMAIN objects :
             (pc = "units" /\ HasDeadTarget(i) /\ objects'[i].health > 0)
             => /\ Dist2(Position(objects'[i]), Position(objects[objects[i].target_object]))
                       >= Dist2(Position(objects[i]), Position(objects[objects[i].target_object]))
                /\ objects'[i].target_object # objects[i].target_object]_vars

----------------------------------------------------------------------------
(* Headquarters.place_building called on its own (checked on SpecPlaceCall): the
   GDI Headquarters has no pending building; place_building is called with
   building classes and positions near the base, on another building and far
   from every friendly building. *)

MaxPlaceCallObjects == 5
PlaceCallClasses == {"Barracks", "PowerPlant", "Turret"}
PlaceCallPositions ==
    {<<420, 330>>, <<330, 440>>, <<230, 250>>, <<340, 340>>, <<900, 400>>, <<410, 230>>}

PlaceCallInit ==
    /\ MatchInit
    /\ objects = << NewObject("Headquarters", "GDI", 300, 300),
                    NewObject("Headquarters", "NOD", MAP_WIDTH - 300, MAP_HEIGHT - 300) >>
    /\ fields = <<>>
    /\ iron = [t \in Teams |-> 1500]
    /\ ai = NewAI(FALSE)

\* gdi_headquarters.place_building(position, unit_cls): the function has no raise
\* statement, so the call always returns.
CallPlaceBuilding(position, unit_cls) ==
    /\ Len(objects) < MaxPlaceCallObjects
    /\ LET r == place_building("GDI", hq["GDI"], position, unit_cls)
       IN /\ hq' = [hq EXCEPT !["GDI"] = r.hq]
          /\ objects' = objects \o r.new_buildings
          /\ obs' = [op |-> "place_building", pending |-> hq["GDI"].pending_building_class,
                     raised |-> FALSE, added |-> Len(r.new_buildings)]
    /\ UNCHANGED <<fogVars, fields, projectiles, iron, ai, pc, now, selected_building>>

PlaceCallNext ==
    \E position \in PlaceCallPositions, unit_cls \in PlaceCallClasses :
        CallPlaceBuilding(position, unit_cls)

SpecPlaceCall == PlaceCallInit /\ [][PlaceCallNext]_vars

\* C36: place_building called on a Headquarters without a pending building class
\* raises the type error and adds no building, whatever position and class.
PlaceWithoutPendingRaises ==
    (obs.op = "place_building" /\ obs.pending = "None") =>
        obs.raised /\ obs.added = 0

\* ---------------------------------------------------------------------------
\* The stockpiles under purchases and sells of both sides (checked on SpecEconomy)
\* ---------------------------------------------------------------------------

MaxEconomyTicks == 52

EconomyClickTicks == {49, 51}

EconomyClasses == {"Infantry", "PowerPlant"}

EconomyIron == {<<100, 800>>, <<350, 400>>}

\* A match in which both sides are short of iron: GDI owns a Barracks and a
\* PowerPlant it can sell and a loaded Harvester on its way home, NOD only its
\* Headquarters.
EconomyInit ==
    /\ MatchInit
    /\ objects = << NewObject("Headquarters", "GDI", 300, 300),
                    NewObject("Headquarters", "NOD", MAP_WIDTH - 300, MAP_HEIGHT - 300),
                    NewObject("Barracks", "GDI", 224, 320),
                    NewObject("PowerPlant", "GDI", 288, 192),
                    [NewObject("Harvester", "GDI", 340, 330) EXCEPT
                        !.state = "returning", !.iron = HARVESTER_CAPACITY,
                        !.target = <<300, 300>>] >>
    /\ fields = <<>>
    /\ \E stock \in EconomyIron : iron = [t \in Teams |-> IF t = "GDI" THEN stock[1] ELSE stock[2]]
    /\ ai = NewAI(TRUE)

EconomyBuy(cls) == now \in EconomyClickTicks /\ PlayerBuy(cls)

EconomySelect(b) == now \in EconomyClickTicks /\ PlayerSelect(b)

EconomySell == now \in EconomyClickTicks /\ PlayerSell

EconomyNext ==
    \/ \E cls \in EconomyClasses : EconomyBuy(cls)
    \/ \E b \in DOMAIN objects \cup {NoObject} : EconomySelect(b)
    \/ EconomySell
    \/ BeginTick(MaxEconomyTicks)
    \/ TickPhases

SpecEconomy == EconomyInit /\ [][EconomyNext]_vars

RECURSIVE SumCost(_)
SumCost(q) == IF q = <<>> THEN 0 ELSE COST(Head(q)) + SumCost(Tail(q))

\* What a step appended to the production queue of team t.
Bought(t) ==
    LET old == hq[t].production_queue
        new == hq'[t].production_queue
    IN IF Len(new) >= Len(old) /\ SubSeq(new, 1, Len(old)) = old
       THEN SubSeq(new, Len(old) + 1, Len(new))
       ELSE <<>>

\* C37: the stockpile of a team is never negative, and a step that lowers it is a
\* purchase: it appends classes to the team's production queue, lowers the stockpile
\* by their COSTs, and each of them was bought with at least its COST in the stockpile.
IronNeverNegative ==
    /\ [](\A t \in Teams : iron[t] >= 0)
    /\ [][\A t \in Teams :
             iron'[t] < iron[t] =>
                LET bought == Bought(t)
                IN /\ bought # <<>>
                   /\ iron'[t] = iron[t] - SumCost(bought)
                   /\ \A k \in 1 .. Len(bought) :
                         iron[t] - SumCost(SubSeq(bought, 1, k - 1)) >= COST(bought[k])]_vars

\* The player has spent the last of the GDI stockpile on a purchase while the AI has
\* spent part of the NOD stockpile.
IronNeverNegativeWitness ==
    /\ obs.op = "buy"
    /\ iron["GDI"] = 0
    /\ hq["GDI"].production_queue # <<>>
    /\ iron["NOD"] = 300

\* ---------------------------------------------------------------------------
\* A Harvester ordered to attack (checked on SpecAttackOrder)
\* ---------------------------------------------------------------------------

MaxAttackOrderTicks == 260

\* The ticks after which the player's right clicks arrive: before the first tick and
\* while the Harvester is on its way back.
AttackOrderTicks == {0, 80}

\* The right clicks with the Harvester selected: on open ground and on the enemy
\* Power Plant.
AttackOrderClicks == {<<3, <<480, 330>>>>, <<3, <<590, 590>>>>}

AttackOrderInit ==
    /\ MatchInit
    /\ objects = << NewObject("Headquarters", "GDI", 300, 300),
                    NewObject("Headquarters", "NOD", MAP_WIDTH - 300, MAP_HEIGHT - 300),
                    NewObject("Harvester", "GDI", 375, 385),
                    NewObject("PowerPlant", "NOD", 560, 560) >>
    /\ fields = << NewField(460, 380, FIELD_MAX_RESOURCES) >>
    /\ iron = [t \in Teams |-> 1500]
    /\ ai = NewAI(FALSE)

AttackOrderClick(i, point) ==
    /\ now \in AttackOrderTicks
    /\ PlayerOrder(i, point)

AttackOrderNext ==
    \/ BeginTick(MaxAttackOrderTicks)
    \/ TickPhases
    \/ \E c \in AttackOrderClicks : AttackOrderClick(c[1], c[2])

SpecAttackOrder == AttackOrderInit /\ [][AttackOrderNext]_vars

\* C38: no update of a Harvester raises: a Harvester whose harvest time has run out
\* has a target field, and a returning Harvester has a target point when its state
\* machine runs, also after the player's move and attack orders.
HarvesterNeverRaises == pc # "raised"

\* ---------------------------------------------------------------------------
\* An AI placement that fails (checked on SpecBlocked)
\* ---------------------------------------------------------------------------

MaxBlockedTicks == 400

BlockedIron == {550, 850}

\* NOD owns only its Headquarters and the only iron field lies next to the GDI
\* Headquarters, further than FIELD_PLACEMENT_RANGE from every position around the
\* NOD Headquarters.
BlockedInit ==
    /\ MatchInit
    /\ objects = << NewObject("Headquarters", "GDI", 300, 300),
                    NewObject("Headquarters", "NOD", MAP_WIDTH - 300, MAP_HEIGHT - 300) >>
    /\ fields = << NewField(460, 380, FIELD_MAX_RESOURCES) >>
    /\ \E n \in BlockedIron : iron = [t \in Teams |-> IF t = "GDI" THEN 1500 ELSE n]
    /\ ai = NewAI(TRUE)

BlockedNext ==
    \/ BeginTick(MaxBlockedTicks)
    \/ TickPhases

\* The main loop goes on: a phase is followed by the next one, and a tick by the
\* next tick until MaxBlockedTicks ticks are taken.
BlockedLoopStep ==
    /\ pc = "input" => now < MaxBlockedTicks
    /\ pc' \in {"input", "units", "fields", "buildings", "projectiles", "collisions",
                "attacks", "impacts", "ai", "raised"}
    /\ pc' # pc

SpecBlocked == BlockedInit /\ [][BlockedNext]_vars /\ WF_pc(BlockedLoopStep)

\* The AI's Headquarters holds a building whose placement was attempted and refused.
FailedPlacement ==
    /\ hq["NOD"].pending_building_class # "None"
    /\ hq["NOD"].pending_building_pos # NoPoint

VisibleTilesExplored == obs.op = "update_visibility" => visible \subseteq explored

====
